---------------------------- MODULE Spec2Model ----------------------------
(***************************************************************************)
(* Verification model of the StuKon teaching notebooks:                    *)
(*   - Exercise 1.2, data driven function approximation (part_000)         *)
(*   - Exercise 1.3, physics-informed function approximation (part_001)    *)
(*   - examples/pinn/exp-function-with-param.ipynb                         *)
(* Tensor indices are 0-based in the notebooks and 1-based here: the       *)
(* notebook entry T[i, k, c] is T[i+1][k+1][c+1] in this module.           *)
(* Real numbers are exact rationals <<numerator, denominator>>.            *)
(***************************************************************************)
EXTENDS Integers, Sequences, FiniteSets, TLC

VARIABLES
    \* ---- Exercise 1.2: dataset construction and accuracy-check cell ----
    dpc,                  \* position in the notebook: "params", "dataset", "checked"
    rng,                  \* state of the pseudo-random generator behind torch.rand
    input_training, output_training, input_testing, output_testing,
    data_index_for_plot,  \* the index the accuracy-check cell plots
    shown_D,              \* the value printed as "Showing D value:"
    plot_t,               \* the x-axis handed to plt.plot
    plot_ref,             \* the "Reference Solution" curve handed to plt.plot
    \* ---- Exercise 1.3: autograd example, closed form, reference solution ----
    cells_run,            \* the cells of this part run so far
    v_D, v_t,             \* the point (D, t) the closed form is looked at
    v_u,                  \* <<u, u_t, u_tt>> of the stated closed form at (v_t, v_D)
    v_real,               \* <<u, u_t, u_tt>> of real_out at (v_t, v_D)
    ex_u_t,               \* u_t[0] of the autograd example cell
    ex_analytical,        \* 2*t of the autograd example cell
    compared,             \* the stated closed form and real_out at D = 0.02 and
                          \* the time with e^(-2 sqrt(D g) t) = 1/n
    higher,               \* the flags requires_grad (of t) and create_graph (of the
                          \* first autograd call), the first derivative u_t and
                          \* the second derivative u_tt taken with them
    \* ---- the training cells of the three notebooks ----
    nb,                   \* the notebook that is run: "data", "pinn" or "param"
    tpc,                  \* position in the training cell
    it,                   \* iterations completed (t, k, the trainer's global step)
    n_steps,              \* optimizer steps taken
    weights,              \* the parameters of each network, as the function they yield
    grads,                \* what the .grad fields of the parameters hold
    model_out,            \* Exercise 1.2: the network output of this iteration
    loss,                 \* Exercise 1.2: the loss of this iteration
    loss_ode, loss_initial_position, loss_initial_speed, total_loss,
    printed,              \* the last "Loss at iteration" line printed
    solver,               \* the torchphysics solver
    last_step,            \* what the trainer's last step computed and updated
    runs,                 \* how often the training cell has been started
    optimizer,            \* the optimizer object the loop uses
    left_by_run,          \* the parameters as the last finished run (or the
                          \* construction of the model) left them
    substeps,             \* the statements of the loop body carried out in the
                          \* iteration that is running or has just ended
    device_of,            \* the device the model and each training tensor is on
    \* ---- the error plot cell of the parameterized PINN notebook ----
    epc,                  \* position in the cell: "none", "loop", "plot", "plotted"
    k_tensor, error_tensor,
    eval_i,               \* iterations of the loop over k_tensor completed
    writes,               \* how often each entry of error_tensor was assigned
    \* ---- the exact solution of the exponential-growth problem ----
    sol_pc,               \* "point", "solution", "residual"
    sol_x, sol_k,         \* the point (x, k) looked at
    sol_u,                \* the exact solution at (sol_x, sol_k)
    sol_res,              \* its boundary residual
    \* ---- examples/workshop/Exercise1_1.ipynb: indexing a tensor ----
    wmode,                \* "notebook": the cells as written; "tried": an index
                          \* of the reader's own was tried
    wpc,                  \* -1 before test_tensor exists, then the number of
                          \* assignments of the notebook carried out
    test_tensor,
    prev_tensor,          \* test_tensor before the last operation on it
    last_write,           \* the index, operator and value of the last operation
    shown,                \* what the last print showed
    raised,               \* the exception of the last operation, "none" if none
    read_value,           \* what the last tried read returned
    n_tries,              \* the number of indices tried
    selected,             \* the tensor the last boolean index returned
    reshaped              \* what the last reshape calls returned: tensor_1.reshape
                          \* as vector, test_tensor.reshape as batch

dataVars == <<dpc, rng, input_training, output_training, input_testing,
              output_testing, data_index_for_plot, shown_D, plot_t, plot_ref>>

diffVars == <<cells_run, v_D, v_t, v_u, v_real, ex_u_t, ex_analytical, higher,
              compared>>

trainVars == <<nb, tpc, it, n_steps, weights, grads, model_out, loss, loss_ode,
               loss_initial_position, loss_initial_speed, total_loss, printed,
               solver, last_step, runs, optimizer, left_by_run,
               substeps, device_of>>

evalVars == <<epc, k_tensor, error_tensor, eval_i, writes>>

exactVars == <<sol_pc, sol_x, sol_k, sol_u, sol_res>>

tensorVars == <<wmode, wpc, test_tensor, prev_tensor, last_write, shown, raised,
                read_value, n_tries, selected, reshaped>>

vars == <<dataVars, diffVars, trainVars, evalVars, exactVars, tensorVars>>

notData == <<diffVars, trainVars, evalVars, exactVars, tensorVars>>
notDiff == <<dataVars, trainVars, evalVars, exactVars, tensorVars>>
notTrain == <<dataVars, diffVars, evalVars, exactVars, tensorVars>>
notEval == <<dataVars, diffVars, trainVars, exactVars, tensorVars>>
notExact == <<dataVars, diffVars, trainVars, evalVars, tensorVars>>
notTensor == <<dataVars, diffVars, trainVars, evalVars, exactVars>>

-----------------------------------------------------------------------------
(* Exact rational arithmetic standing for the notebooks' float arithmetic.  *)

RECURSIVE GCD(_, _)
GCD(a, b) == IF b = 0 THEN a ELSE GCD(b, a % b)

Abs(n) == IF n < 0 THEN -n ELSE n

\* the rational n/d in lowest terms with a positive denominator
Rat(n, d) ==
    LET sgn == IF d < 0 THEN -1 ELSE 1
        c == GCD(Abs(n), Abs(d))
    IN  <<(sgn * n) \div c, (sgn * d) \div c>>

RInt(n) == <<n, 1>>
\* a sum over the least common denominator, a product with the common factors
\* cancelled before multiplying: intermediate results stay small
RAdd(a, b) ==
    LET c == GCD(a[2], b[2])
    IN  Rat(a[1] * (b[2] \div c) + b[1] * (a[2] \div c), (a[2] \div c) * b[2])
RNeg(a) == <<-a[1], a[2]>>
RSub(a, b) == RAdd(a, RNeg(b))
RMul(a, b) ==
    LET c == GCD(Abs(a[1]), b[2])
        d == GCD(Abs(b[1]), a[2])
    IN  Rat((a[1] \div c) * (b[1] \div d), (a[2] \div d) * (b[2] \div c))
RInv(a) == IF a[1] < 0 THEN <<-a[2], -a[1]>> ELSE <<a[2], a[1]>>
RDiv(a, b) == RMul(a, RInv(b))
RLe(a, b) == a[1] * b[2] <= b[1] * a[2]
RLt(a, b) == a[1] * b[2] < b[1] * a[2]

-----------------------------------------------------------------------------
(* Parameter cell of Exercise 1.2 (part_000 lines 52-61).                   *)

t_min == RInt(0)
t_max == RInt(3)
D_min == Rat(1, 100)
D_max == RInt(1)
g == Rat(981, 100)
H == RInt(50)

N_D_train == 500
N_t_train == 50
N_D_test == 25
N_t_test == 50

-----------------------------------------------------------------------------
(* Tensor primitives of the framework, as the notebooks use them.           *)

\* equidistant points with the step (end - start) / steps: the end is left out
linspace_wrong_step(start, end, steps) ==
    [k \in 1..steps |->
        RAdd(start, RMul(RInt(k - 1), RDiv(RSub(end, start), RInt(steps))))]

\* torch.linspace(start, end, steps): steps equidistant points, both ends included
linspace(start, end, steps) ==
    [k \in 1..steps |->
        RAdd(start, RMul(RInt(k - 1), RDiv(RSub(end, start), RInt(steps - 1))))]

\* torch.rand: a pseudo-random generator; RandMod is the resolution of the
\* values it can produce, every value lies in [0, 1)
RandMod == 32

\* one step of the generator is x -> (5 x + 3) mod RandMod; RandJump(n) is the
\* pair <<a, c>> with n steps being x -> (a x + c) mod RandMod
RECURSIVE RandJump(_)
RandJump(n) ==
    IF n = 0 THEN <<1, 0>>
    ELSE IF n % 2 = 0
         THEN LET h == RandJump(n \div 2)
              IN  <<(h[1] * h[1]) % RandMod, (h[1] * h[2] + h[2]) % RandMod>>
         ELSE LET h == RandJump(n - 1)
              IN  <<(5 * h[1]) % RandMod, (5 * h[2] + 3) % RandMod>>

\* the generator's state n draws after state x
RandState(x, n) == (RandJump(n)[1] * x + RandJump(n)[2]) % RandMod

rand(n, x) == [i \in 1..n |-> Rat(RandState(x, i - 1), RandMod)]

\* vector.repeat_interleave(n): every element repeated n times in a row
repeat_interleave(v, n) ==
    [j \in 1..(Len(v) * n) |-> v[((j - 1) \div n) + 1]]

\* vector.repeat(n): the whole vector repeated n times
repeat(v, n) ==
    [j \in 1..(Len(v) * n) |-> v[((j - 1) % Len(v)) + 1]]

\* flat.reshape(rows, cols): row-major
reshape(flat, rows, cols) ==
    [i \in 1..rows |-> [k \in 1..cols |-> flat[(i - 1) * cols + k]]]

\* tensor.shape of a three-dimensional tensor
shape(T) == <<Len(T), Len(T[1]), Len(T[1][1])>>

-----------------------------------------------------------------------------
(* Exercise 1.2 a): the four dataset tensors,                               *)
(*   input[i, k] = (D_i, t_k),  output[i, k] = u(t_k; D_i).                 *)

\* the closed-form target evaluated at one (t, D) pair; the value is kept as the
\* unevaluated application, its arithmetic is the subject of ClosedForm below
u_at(t, D) == <<"u", t, D>>

\* D sampled in [D_min, D_max] from n draws of torch.rand
sample_D(n, x) ==
    LET r == rand(n, x)
    IN  [i \in 1..n |-> RAdd(D_min, RMul(RSub(D_max, D_min), r[i]))]

\* the D values repeated along the time axis (the hint: repeat_interleave + reshape)
D_grid(D, Nt) == reshape(repeat_interleave(D, Nt), Len(D), Nt)

\* the time grid shared by all D values
t_grid(t, ND) == reshape(repeat(t, ND), ND, Len(t))

make_input(D, t) ==
    LET Dg == D_grid(D, Len(t))
        tg == t_grid(t, Len(D))
    IN  [i \in 1..Len(D) |-> [k \in 1..Len(t) |-> <<Dg[i][k], tg[i][k]>>]]

make_output(D, t) ==
    LET Dg == D_grid(D, Len(t))
        tg == t_grid(t, Len(D))
    IN  [i \in 1..Len(D) |-> [k \in 1..Len(t) |-> <<u_at(tg[i][k], Dg[i][k])>>]]

\* the D draws of the training and of the testing set: consecutive draws of the
\* same generator
D_training(x) == sample_D(N_D_train, x)
D_testing(x) == sample_D(N_D_test, RandState(x, N_D_train))

CreateDataset ==
    /\ dpc = "params"
    /\ input_training' = make_input(D_training(rng), linspace(t_min, t_max, N_t_train))
    /\ output_training' = make_output(D_training(rng), linspace(t_min, t_max, N_t_train))
    /\ input_testing' = make_input(D_testing(rng), linspace(t_min, t_max, N_t_test))
    /\ output_testing' = make_output(D_testing(rng), linspace(t_min, t_max, N_t_test))
    /\ rng' = RandState(rng, N_D_train + N_D_test)
    /\ dpc' = "dataset"
    /\ UNCHANGED <<data_index_for_plot, shown_D, plot_t, plot_ref>>
    /\ UNCHANGED notData

-----------------------------------------------------------------------------
(* Accuracy-check cell of Exercise 1.2 (part_000 lines 171-200): what it    *)
(* reads from the testing tensors.                                          *)

\* input_testing[idx, 0, 1]
read_D_time_column(inp, idx) == inp[idx + 1][1][2]

\* input_testing[idx, 0, 0]
read_D(inp, idx) == inp[idx + 1][1][1]

\* input_testing[idx, :, 1]
read_t(inp, idx) == [k \in 1..Len(inp[idx + 1]) |-> inp[idx + 1][k][2]]

\* output_testing[idx]
read_ref(out, idx) == out[idx + 1]

MaxPlotIndex == 2

AccuracyCheck ==
    /\ dpc \in {"dataset", "checked"}
    /\ \E idx \in 0..MaxPlotIndex :
          /\ data_index_for_plot' = idx
          /\ shown_D' = read_D(input_testing, idx)
          /\ plot_t' = read_t(input_testing, idx)
          /\ plot_ref' = read_ref(output_testing, idx)
    /\ dpc' = "checked"
    /\ UNCHANGED <<rng, input_training, output_training, input_testing, output_testing>>
    /\ UNCHANGED notData

-----------------------------------------------------------------------------
(* Exact values of exp, log and sqrt.  A number q + SUM_p c[p] * ln(p) over  *)
(* the primes p of Primes is the record [q |-> q, ln |-> c], q and the c[p] *)
(* rational.  1 and the logarithms of distinct primes are linearly          *)
(* independent over the rationals, so two records are equal exactly when    *)
(* the numbers are.  An operation whose result has no such form has no      *)
(* value here (its CASE has no arm), so no value is ever approximated.      *)

Primes == {2, 3, 5, 7}

NoLn == [p \in Primes |-> RInt(0)]

VRat(r) == [q |-> r, ln |-> NoLn]
IsRat(v) == v.ln = NoLn

VAdd(a, b) == [q |-> RAdd(a.q, b.q), ln |-> [p \in Primes |-> RAdd(a.ln[p], b.ln[p])]]
VScale(r, v) == [q |-> RMul(r, v.q), ln |-> [p \in Primes |-> RMul(r, v.ln[p])]]
VSub(a, b) == VAdd(a, VScale(RInt(-1), b))

\* a product, one factor of which is rational
VMul(a, b) ==
    CASE IsRat(a) -> VScale(a.q, b)
      [] IsRat(b) -> VScale(b.q, a)

RECURSIVE Expo(_, _)
\* the exponent of the prime p in the positive integer n
Expo(n, p) == IF n % p = 0 THEN 1 + Expo(n \div p, p) ELSE 0

RECURSIVE Pow(_, _)
Pow(b, e) == IF e = 0 THEN 1 ELSE b * Pow(b, e - 1)

\* p^e for an integer e of either sign
RPow(p, e) == IF e >= 0 THEN Rat(Pow(p, e), 1) ELSE Rat(1, Pow(p, -e))

\* the positive integer n has no prime factor outside Primes
Smooth(n) == n = Pow(2, Expo(n, 2)) * Pow(3, Expo(n, 3)) * Pow(5, Expo(n, 5)) * Pow(7, Expo(n, 7))

\* torch.log of a positive rational
VLn(r) ==
    CASE r[1] > 0 /\ Smooth(r[1]) /\ Smooth(r[2]) ->
        [q |-> RInt(0), ln |-> [p \in Primes |-> RInt(Expo(r[1], p) - Expo(r[2], p))]]

\* torch.exp of an integer combination of logarithms of primes
VExp(v) ==
    CASE v.q = RInt(0) /\ \A p \in Primes : v.ln[p][2] = 1 ->
        RMul(RMul(RPow(2, v.ln[2][1]), RPow(3, v.ln[3][1])),
             RMul(RPow(5, v.ln[5][1]), RPow(7, v.ln[7][1])))

\* the integer square root of a perfect square
ISqrt(n) == CHOOSE k \in 0..n : k * k = n

\* math.sqrt / torch.sqrt of a rational that is a square of a rational
RSqrt(r) == Rat(ISqrt(r[1]), ISqrt(r[2]))

-----------------------------------------------------------------------------
(* torch.autograd.grad on the value of a scalar function of t: a value is   *)
(* carried with its first and second time derivative, <<value, d/dt,        *)
(* d2/dt2>>, and every operation applies the chain rule.                    *)

JVar(t) == <<t, RInt(1), RInt(0)>>
JConst(r) == <<VRat(r), RInt(0), RInt(0)>>
JAdd(a, b) == <<VAdd(a[1], b[1]), RAdd(a[2], b[2]), RAdd(a[3], b[3])>>
JScale(r, a) == <<VScale(r, a[1]), RMul(r, a[2]), RMul(r, a[3])>>
JSub(a, b) == JAdd(a, JScale(RInt(-1), b))

\* exp(f): (e^f)' = f' e^f, (e^f)'' = (f'' + f'^2) e^f
JExp(a) ==
    LET e == VExp(a[1])
    IN  <<VRat(e), RMul(a[2], e), RMul(RAdd(a[3], RMul(a[2], a[2])), e)>>

\* log(f): (ln f)' = f'/f, (ln f)'' = (f'' f - f'^2) / f^2
JLn(a) ==
    LET f == a[1].q
    IN  CASE IsRat(a[1]) ->
            <<VLn(f), RDiv(a[2], f),
              RDiv(RSub(RMul(a[3], f), RMul(a[2], a[2])), RMul(f, f))>>

-----------------------------------------------------------------------------
(* The closed form of Exercises 1.2 and 1.3                                 *)
(*   u(t; D) = 1/D (ln((1 + e^(-2 sqrt(D g) t)) / 2) - sqrt(D g) t) + H     *)
(* and the reference solution the accuracy-check cell of Exercise 1.3       *)
(* computes.                                                                *)

\* the formula with  ln(1 + e^(..))  in place of  ln((1 + e^(..)) / 2)
u_log_of_sum(t, D) ==
    LET sq == RSqrt(RMul(D, g))
        st == JScale(sq, JVar(t))
        e  == JExp(JScale(RInt(-2), st))
        l  == JLn(JAdd(JConst(RInt(1)), e))
    IN  JAdd(JScale(RDiv(RInt(1), D), JSub(l, st)), JConst(H))

\* the formula as the notebooks state it, for st = sqrt(D g) t
stated_form(st, D) ==
    LET e  == JExp(JScale(RInt(-2), st))
        l  == JLn(JScale(Rat(1, 2), JAdd(JConst(RInt(1)), e)))
    IN  JAdd(JScale(RDiv(RInt(1), D), JSub(l, st)), JConst(H))

\* the formula as the notebooks state it
u(t, D) == stated_form(JScale(RSqrt(RMul(D, g)), JVar(t)), D)

\* the expression of real_out for st = sqrt_term * t_plot
reference_form(st, D) ==
    LET e  == JExp(JScale(RInt(-2), st))
        l  == JLn(JScale(Rat(1, 2), JAdd(JConst(RInt(1)), e)))
    IN  JSub(JConst(H), JScale(RDiv(RInt(1), D), JAdd(l, st)))

\* real_out = H - 1/D * (torch.log((1 + torch.exp(-2*sqrt_term*t_plot))/2.0)
\*                       + sqrt_term*t_plot)
real_out(t, D) == reference_form(JScale(RSqrt(RMul(D, g)), JVar(t)), D)

\* the right-hand side of the ODE, D (u_t)^2 - g, for a first derivative u_t
ode_rhs(D, u_t) == RSub(RMul(D, RMul(u_t, u_t)), g)

-----------------------------------------------------------------------------
(* Exercise 1.3: the autograd example cell (part_001 lines 70-86).  An      *)
(* entry of a tensor that requires grad is [val, grad]: its value and its   *)
(* derivative with respect to every entry of t.                             *)

\* t, requires_grad = True: entry i depends on entry i of t alone
leaf(v) ==
    [i \in 1..Len(v) |->
        [val |-> v[i], grad |-> [j \in 1..Len(v) |-> IF j = i THEN RInt(1) ELSE RInt(0)]]]

\* t * 2, entry by entry
times_two(t) ==
    [i \in 1..Len(t) |->
        [val |-> RMul(RInt(2), t[i].val),
         grad |-> [j \in 1..Len(t[i].grad) |-> RMul(RInt(2), t[i].grad[j])]]]

\* t * 2 where t ** 2 is meant
square_as_double(t) == times_two(t)

\* t ** 2, entry by entry: d(x^2) = 2 x dx
square(t) ==
    [i \in 1..Len(t) |->
        [val |-> RMul(t[i].val, t[i].val),
         grad |-> [j \in 1..Len(t[i].grad) |->
                      RMul(RMul(RInt(2), t[i].val), t[i].grad[j])]]]

RECURSIVE sum(_)
\* Python's sum(u): 0 + u[0] + u[1] + ...
sum(w) ==
    IF Len(w) = 0 THEN [val |-> RInt(0), grad |-> <<>>]
    ELSE LET r == sum(SubSeq(w, 1, Len(w) - 1))
             x == w[Len(w)]
         IN  [val |-> RAdd(r.val, x.val),
              grad |-> [j \in 1..Len(x.grad) |->
                           IF r.grad = <<>> THEN x.grad[j] ELSE RAdd(r.grad[j], x.grad[j])]]

\* torch.autograd.grad(y, t): a tuple, its first element the derivative of the
\* scalar y with respect to every entry of t
autograd_grad(y) == <<y.grad>>

\* t = torch.linspace(0, 10, 11, requires_grad=True)
example_t == leaf(linspace(RInt(0), RInt(10), 11))

\* u_t = torch.autograd.grad(sum(t**2), t, create_graph=True)
example_u_t == autograd_grad(sum(square(example_t)))

\* 2*t
example_analytical == [i \in 1..Len(example_t) |-> times_two(example_t)[i].val]

AutogradExample ==
    /\ "example" \notin cells_run
    /\ ex_u_t' = example_u_t[1]
    /\ ex_analytical' = example_analytical
    /\ cells_run' = cells_run \cup {"example"}
    /\ UNCHANGED <<v_D, v_t, v_u, v_real, higher, compared>>
    /\ UNCHANGED notDiff

-----------------------------------------------------------------------------
(* Exercise 1.3: derivatives of higher order (part_001 lines 71-72, 79-80,  *)
(* 127-128).  A tensor that autograd knows is                               *)
(*   [status, requires_grad, entries]                                       *)
(* with <<x, dx/dt, d2x/dt2>> for every entry; status is "RuntimeError"     *)
(* for the result of a call that raised.                                    *)

Raised == [status |-> "RuntimeError", requires_grad |-> FALSE, entries |-> <<>>]

NotRun == [status |-> "not run", requires_grad |-> FALSE, entries |-> <<>>]

\* torch.linspace(0, 10, 11, requires_grad=flag)
tracked_leaf(v, flag) ==
    [status |-> "ok", requires_grad |-> flag,
     entries |-> [i \in 1..Len(v) |-> <<v[i], RInt(1), RInt(0)>>]]

\* t ** 2 cut off from the graph of t
tracked_square_detached(x) ==
    [status |-> "ok", requires_grad |-> FALSE,
     entries |-> [i \in 1..Len(x.entries) |->
                     <<RMul(x.entries[i][1], x.entries[i][1]), RInt(0), RInt(0)>>]]

\* t ** 2 with its first and second derivative; the result is tracked if t is
tracked_square(x) ==
    [status |-> "ok", requires_grad |-> x.requires_grad,
     entries |-> [i \in 1..Len(x.entries) |->
                     LET e == x.entries[i]
                     IN  <<RMul(e[1], e[1]),
                           RMul(RInt(2), RMul(e[1], e[2])),
                           RAdd(RMul(RInt(2), RMul(e[2], e[2])),
                                RMul(RInt(2), RMul(e[1], e[3])))>>]]

\* the derivative autograd returns is part of a graph, and can be
\* differentiated again, only with create_graph=True
grad_result_tracked(create_graph) == create_graph

\* torch.autograd.grad(sum(y), x, create_graph=create_graph)[0]: raises if y
\* is not part of a graph or x does not require grad
tracked_grad(y, x, create_graph) ==
    IF y.status # "ok" \/ x.status # "ok" THEN Raised
    ELSE IF ~y.requires_grad \/ ~x.requires_grad THEN Raised
    ELSE [status |-> "ok", requires_grad |-> grad_result_tracked(create_graph),
          entries |-> [i \in 1..Len(y.entries) |->
                          <<y.entries[i][2], y.entries[i][3], RInt(0)>>]]

\* t of the example cell with the flag chosen
higher_t == [flag \in BOOLEAN |-> tracked_leaf(linspace(RInt(0), RInt(10), 11), flag)]

\* u = t**2; u_t = torch.autograd.grad(sum(u), t, create_graph=...)[0]
FirstDerivative ==
    /\ "first" \notin cells_run
    /\ higher' = [higher EXCEPT !.u_t =
                      tracked_grad(tracked_square(higher_t[higher.requires_grad]),
                                   higher_t[higher.requires_grad], higher.create_graph)]
    /\ cells_run' = cells_run \cup {"first"}
    /\ UNCHANGED <<v_D, v_t, v_u, v_real, ex_u_t, ex_analytical, compared>>
    /\ UNCHANGED notDiff

\* u_tt = torch.autograd.grad(sum(u_t), t)[0]
SecondDerivative ==
    /\ "first" \in cells_run /\ "second" \notin cells_run
    /\ higher' = [higher EXCEPT !.u_tt =
                      tracked_grad(higher.u_t, higher_t[higher.requires_grad], FALSE)]
    /\ cells_run' = cells_run \cup {"second"}
    /\ UNCHANGED <<v_D, v_t, v_u, v_real, ex_u_t, ex_analytical, compared>>
    /\ UNCHANGED notDiff

-----------------------------------------------------------------------------
(* Exercise 1.3 a): the closed form inserted into the ODE, and the          *)
(* reference solution of the accuracy-check cell, at a point (D, t).        *)

\* The points looked at: D with sqrt(D g) rational, D = 100 s^2 / 981, and times
\* t = ln(n) / (2 sqrt(D g)), so that e^(-2 sqrt(D g) t) = 1/n.
MaxN == 4

DSamples == {Rat(25, 981), Rat(100, 981), Rat(225, 981), Rat(400, 981),
             Rat(625, 981), Rat(900, 981)}

LnTime(n, D) ==
    VScale(RDiv(RInt(1), RMul(RInt(2), RSqrt(RMul(D, g)))), VLn(RInt(n)))

\* ln(n) <= n - 1, so t <= (n - 1) / (2 sqrt(D g)); t <= t_max follows from
\* n - 1 <= 2 sqrt(D g) t_max
InTimeRange(n, D) ==
    RLe(RInt(n - 1), RMul(RMul(RInt(2), RSqrt(RMul(D, g))), t_max))

VerifyODE ==
    /\ "verify" \notin cells_run
    /\ v_u' = u(v_t, v_D)
    /\ cells_run' = cells_run \cup {"verify"}
    /\ UNCHANGED <<v_D, v_t, v_real, ex_u_t, ex_analytical, higher, compared>>
    /\ UNCHANGED notDiff

ReferenceSolution ==
    /\ "reference" \notin cells_run
    /\ v_real' = real_out(v_t, v_D)
    /\ cells_run' = cells_run \cup {"reference"}
    /\ UNCHANGED <<v_D, v_t, v_u, ex_u_t, ex_analytical, higher, compared>>
    /\ UNCHANGED notDiff

-----------------------------------------------------------------------------
(* The networks.  The parameter values of a network are abstracted to the   *)
(* index of the function the network computes with them, out of a finite    *)
(* family of polynomials; torch.autograd.grad of the network output is the  *)
(* derivative of that polynomial.                                           *)

\* how many members of a family the parameters range over
NumNets == 2

\* Exercise 1.3, model(t): u(t) = c[1] + c[2] t + c[3] t^2
PinnNets == << <<RInt(0), RInt(0), RInt(0)>>,
               <<RInt(49), RInt(1), RInt(1)>>,
               <<RInt(50), RInt(0), RInt(-1)>>,
               <<RInt(51), RInt(0), RInt(0)>>,
               <<RInt(50), RInt(-1), RInt(1)>> >>

\* <<u, u_t, u_tt>> of the network with parameters w at time t
model_jet(w, t) ==
    LET c == PinnNets[w + 1]
    IN  << RAdd(c[1], RAdd(RMul(c[2], t), RMul(c[3], RMul(t, t)))),
           RAdd(c[2], RMul(RInt(2), RMul(c[3], t))),
           RMul(RInt(2), c[3]) >>

\* the parameterized PINN, model(x, k): u(x, k) = c[1] + c[2] x + c[3] k x
ParamNets == << <<RInt(0), RInt(1), RInt(0)>>,
                <<RInt(1), RInt(0), RInt(0)>>,
                <<RInt(1), RInt(0), RInt(1)>>,
                <<RInt(0), RInt(0), RInt(0)>>,
                <<RInt(1), RInt(1), RInt(1)>> >>

\* <<u, du/dx>> of the network with parameters w at the point (x, k)
param_model(w, x, k) ==
    LET c == ParamNets[w + 1]
    IN  << RAdd(c[1], RAdd(RMul(c[2], x), RMul(c[3], RMul(k, x)))),
           RAdd(c[2], RMul(c[3], k)) >>

RECURSIVE RSum(_)
RSum(v) == IF Len(v) = 0 THEN RInt(0) ELSE RAdd(RSum(SubSeq(v, 1, Len(v) - 1)), v[Len(v)])

\* torch.nn.MSELoss()(a, b): the mean of the squared differences
MSELoss(a, b) ==
    RDiv(RSum([i \in 1..Len(a) |-> RMul(RSub(a[i], b[i]), RSub(a[i], b[i]))]),
         RInt(Len(a)))

\* a loop that goes on after i = n iterations
range_off_by_one(i, n) == i <= n

\* range(n) has a next value after i iterations
range_has_next(i, n) == i < n

-----------------------------------------------------------------------------
(* Parameter cells of Exercise 1.3 and of the training cells.               *)

D_pinn == Rat(1, 50)
train_iterations == 5000
max_steps == 8000

\* the number of time points the losses are evaluated on
GridN == 3

-----------------------------------------------------------------------------
(* Exercise 1.2 c): the supervised training cell (part_000 lines 141-162).  *)
(* The loop variable t of the cell is it here.                              *)

NoGrad == [of |-> "none", at |-> -1]
NoOptimizer == [params |-> "none", created_in_run |-> 0]

\* how often the supervised training cell is run
MaxRuns == 2

\* a model.to that constructs the network anew
model_to_fresh(w, device) == 0

\* model.to(device): the same network, its parameter values as they were
model_to(w, device) == w

\* torch.optim.Adam(model.parameters(), lr=learning_rate): a new optimizer
\* over the parameters of the model, with no state from earlier runs
Adam(params, run) == [params |-> params, created_in_run |-> run]

\* a transfer that leaves the object where it is
to_nowhere(current, target) == current

\* model.to(device), tensor.to(device): the device the object is on afterwards
to(current, target) == target

\* the objects the training cell of a notebook moves to the GPU
moved_by(n) ==
    CASE n = "data" -> {"model", "input_training", "output_training"}
      [] n = "pinn" -> {"model", "t", "t_zero"}
      [] OTHER -> {"model"}

\* Exercise 1.2: if t == 0 or t % 250 == 249
reports_data(t) == t = 0 \/ t % 250 = 249

\* a loop that never shows the loss
reports_pinn_never(k) == FALSE

\* the reporting iterations of Exercise 1.2 in the loop of Exercise 1.3
reports_pinn_like_data(k) == reports_data(k)

\* Exercise 1.3: if k % 250 == 0 or k == train_iterations - 1
reports_pinn(k) == k % 250 = 0 \/ k = train_iterations - 1

NothingPrinted == [k |-> -1, loss |-> <<>>]

\* the cell up to the loop head; it can be run again once it has finished:
\* model.to("cuda"), the loss function and a new Adam over model.parameters()
DataSetup ==
    /\ nb = "data" /\ tpc \in {"idle", "done"}
    /\ runs < MaxRuns
    /\ runs' = runs + 1
    /\ weights' = [weights EXCEPT !["model"] = model_to(@, "cuda")]
    /\ optimizer' = Adam("model", runs + 1)
    /\ it' = 0
    /\ n_steps' = 0
    /\ tpc' = IF range_has_next(0, train_iterations) THEN "evaluate" ELSE "done"
    /\ left_by_run' = IF tpc' = "done" THEN weights'["model"] ELSE left_by_run
    /\ UNCHANGED <<nb, grads, model_out, loss, loss_ode,
                   loss_initial_position, loss_initial_speed, total_loss, printed,
                   solver, last_step>>
    /\ device_of' = [x \in DOMAIN device_of |-> to(device_of[x], "cuda")]
    /\ substeps' = <<>>
    /\ UNCHANGED notTrain

\* model_out = model(input_training): the output of the network with the
\* current parameters, kept unevaluated
DataEvaluate ==
    /\ nb = "data" /\ tpc = "evaluate"
    /\ model_out' = <<"model_out", weights["model"]>>
    /\ tpc' = "loss"
    /\ UNCHANGED <<nb, it, n_steps, weights, grads, loss, loss_ode,
                   loss_initial_position, loss_initial_speed, total_loss, printed,
                   solver, last_step>>
    /\ UNCHANGED <<runs, optimizer, left_by_run>>
    /\ substeps' = <<"evaluate">>
    /\ UNCHANGED device_of
    /\ UNCHANGED notTrain

\* loss = loss_fn(model_out, output_training), kept unevaluated
DataLoss ==
    /\ nb = "data" /\ tpc = "loss"
    /\ loss' = <<"mse", model_out[2]>>
    /\ tpc' = "backward"
    /\ UNCHANGED <<nb, it, n_steps, weights, grads, model_out, loss_ode,
                   loss_initial_position, loss_initial_speed, total_loss, printed,
                   solver, last_step>>
    /\ UNCHANGED <<runs, optimizer, left_by_run>>
    /\ substeps' = Append(substeps, "loss")
    /\ UNCHANGED device_of
    /\ UNCHANGED notTrain

\* optimizer.zero_grad(); loss.backward()
DataBackward ==
    /\ nb = "data" /\ tpc = "backward"
    /\ grads' = [of |-> "loss", at |-> loss[2]]
    /\ tpc' = "step"
    /\ UNCHANGED <<nb, it, n_steps, weights, model_out, loss, loss_ode,
                   loss_initial_position, loss_initial_speed, total_loss, printed,
                   solver, last_step>>
    /\ UNCHANGED <<runs, optimizer, left_by_run>>
    /\ substeps' = Append(substeps, "backward")
    /\ UNCHANGED device_of
    /\ UNCHANGED notTrain

\* optimizer.step(): Adam moves the parameters, to values this model does not
\* predict
DataStep ==
    /\ nb = "data" /\ tpc = "step"
    /\ \E w \in 0..(NumNets - 1) : weights' = [weights EXCEPT !["model"] = w]
    /\ n_steps' = n_steps + 1
    /\ tpc' = "report"
    /\ UNCHANGED <<nb, it, grads, model_out, loss, loss_ode,
                   loss_initial_position, loss_initial_speed, total_loss, printed,
                   solver, last_step>>
    /\ UNCHANGED <<runs, optimizer, left_by_run>>
    /\ substeps' = Append(substeps, "step")
    /\ UNCHANGED device_of
    /\ UNCHANGED notTrain

\* if t == 0 or t % 250 == 249: print(... loss.item()), and the loop goes on
DataReport ==
    /\ nb = "data" /\ tpc = "report"
    /\ printed' = IF reports_data(it)
                  THEN [k |-> it, loss |-> loss] ELSE printed
    /\ it' = it + 1
    /\ tpc' = IF range_has_next(it + 1, train_iterations) THEN "evaluate" ELSE "done"
    /\ left_by_run' = IF tpc' = "done" THEN weights["model"] ELSE left_by_run
    /\ UNCHANGED <<nb, n_steps, weights, grads, model_out, loss, loss_ode,
                   loss_initial_position, loss_initial_speed, total_loss,
                   solver, last_step>>
    /\ UNCHANGED <<runs, optimizer>>
    /\ substeps' = IF reports_data(it) THEN Append(substeps, "log") ELSE substeps
    /\ UNCHANGED device_of
    /\ UNCHANGED notTrain

-----------------------------------------------------------------------------
(* Exercise 1.3 b): the physics-informed training cell (part_001 lines      *)
(* 154-192).  The loop variable k of the cell is it here.                   *)

\* t = torch.linspace(t_min, t_max, N_t, requires_grad=True).reshape(N_t, 1),
\* on GridN points
pinn_t == linspace(t_min, t_max, GridN)

\* t_zero = torch.tensor([0.0], requires_grad=True)
t_zero == <<RInt(0)>>

\* Loss for the differential equation: u_tt = D*(u_t)^2 - g
ode_loss(w) ==
    MSELoss([i \in 1..Len(pinn_t) |-> model_jet(w, pinn_t[i])[3]],
            [i \in 1..Len(pinn_t) |-> ode_rhs(D_pinn, model_jet(w, pinn_t[i])[2])])

\* Loss for initial condition: u(0) = H
initial_position_loss(w) ==
    MSELoss([i \in 1..Len(t_zero) |-> model_jet(w, t_zero[i])[1]],
            [i \in 1..Len(t_zero) |-> H])

\* Loss for the initial velocity: u_t(0) = 0
initial_speed_loss(w) ==
    MSELoss([i \in 1..Len(t_zero) |-> model_jet(w, t_zero[i])[2]],
            [i \in 1..Len(t_zero) |-> RInt(0)])

\* the three losses of the network with parameters w, for every member of
\* the family
pinn_losses ==
    [w \in 0..(NumNets - 1) |->
        [ode |-> ode_loss(w),
         initial_position |-> initial_position_loss(w),
         initial_speed |-> initial_speed_loss(w)]]

\* a sum that leaves the initial-velocity loss out
add_all_loss_terms_but_speed(a, b, c) == RAdd(a, b)

\* total_loss = loss_ode + loss_initial_position + loss_initial_speed
add_all_loss_terms(a, b, c) == RAdd(RAdd(a, b), c)

PinnSetup ==
    /\ nb = "pinn" /\ tpc = "idle"
    /\ runs' = runs + 1
    /\ weights' = [weights EXCEPT !["model"] = model_to(@, "cuda")]
    /\ optimizer' = Adam("model", runs + 1)
    /\ it' = 0
    /\ n_steps' = 0
    /\ tpc' = IF range_has_next(0, train_iterations) THEN "forward" ELSE "done"
    /\ UNCHANGED <<nb, grads, model_out, loss, loss_ode,
                   loss_initial_position, loss_initial_speed, total_loss, printed,
                   solver, last_step>>
    /\ UNCHANGED left_by_run
    /\ device_of' = [x \in DOMAIN device_of |-> to(device_of[x], "cuda")]
    /\ substeps' = <<>>
    /\ UNCHANGED notTrain

PinnForward ==
    /\ nb = "pinn" /\ tpc = "forward"
    /\ loss_ode' = pinn_losses[weights["model"]].ode
    /\ loss_initial_position' = pinn_losses[weights["model"]].initial_position
    /\ loss_initial_speed' = pinn_losses[weights["model"]].initial_speed
    /\ total_loss' = add_all_loss_terms(loss_ode', loss_initial_position',
                                        loss_initial_speed')
    /\ tpc' = "report"
    /\ UNCHANGED <<nb, it, n_steps, weights, grads, model_out, loss, printed,
                   solver, last_step>>
    /\ UNCHANGED <<runs, optimizer, left_by_run>>
    /\ substeps' = <<"evaluate", "loss">>
    /\ UNCHANGED device_of
    /\ UNCHANGED notTrain

\* if k % 250 == 0 or k == train_iterations - 1: print(... total_loss.item())
PinnReport ==
    /\ nb = "pinn" /\ tpc = "report"
    /\ printed' = IF reports_pinn(it)
                  THEN [k |-> it, loss |-> total_loss] ELSE printed
    /\ tpc' = "zero_grad"
    /\ UNCHANGED <<nb, it, n_steps, weights, grads, model_out, loss, loss_ode,
                   loss_initial_position, loss_initial_speed, total_loss,
                   solver, last_step>>
    /\ UNCHANGED <<runs, optimizer, left_by_run>>
    /\ substeps' = IF reports_pinn(it) THEN Append(substeps, "log") ELSE substeps
    /\ UNCHANGED device_of
    /\ UNCHANGED notTrain

\* optimizer.zero_grad()
PinnZeroGrad ==
    /\ nb = "pinn" /\ tpc = "zero_grad"
    /\ grads' = NoGrad
    /\ tpc' = "backward"
    /\ UNCHANGED <<nb, it, n_steps, weights, model_out, loss, loss_ode,
                   loss_initial_position, loss_initial_speed, total_loss, printed,
                   solver, last_step>>
    /\ UNCHANGED <<runs, optimizer, left_by_run>>
    /\ substeps' = Append(substeps, "zero_grad")
    /\ UNCHANGED device_of
    /\ UNCHANGED notTrain

\* total_loss.backward()
PinnBackward ==
    /\ nb = "pinn" /\ tpc = "backward"
    /\ grads' = [of |-> "total_loss", at |-> weights["model"]]
    /\ tpc' = "step"
    /\ UNCHANGED <<nb, it, n_steps, weights, model_out, loss, loss_ode,
                   loss_initial_position, loss_initial_speed, total_loss, printed,
                   solver, last_step>>
    /\ UNCHANGED <<runs, optimizer, left_by_run>>
    /\ substeps' = Append(substeps, "backward")
    /\ UNCHANGED device_of
    /\ UNCHANGED notTrain

\* optimizer.step(), and the loop goes on
PinnStep ==
    /\ nb = "pinn" /\ tpc = "step"
    /\ \E w \in 0..(NumNets - 1) : weights' = [weights EXCEPT !["model"] = w]
    /\ n_steps' = n_steps + 1
    /\ it' = it + 1
    /\ tpc' = IF range_has_next(it + 1, train_iterations) THEN "forward" ELSE "done"
    /\ UNCHANGED <<nb, grads, model_out, loss, loss_ode,
                   loss_initial_position, loss_initial_speed, total_loss, printed,
                   solver, last_step>>
    /\ UNCHANGED <<runs, optimizer, left_by_run>>
    /\ substeps' = Append(substeps, "step")
    /\ UNCHANGED device_of
    /\ UNCHANGED notTrain

\* the accuracy check cells of Exercise 1.2 and 1.3, run after the training:
\* model.to("cpu"); model_out = model(...)
AccuracyCell ==
    /\ nb \in {"data", "pinn"} /\ tpc = "done"
    /\ weights' = [weights EXCEPT !["model"] = model_to(@, "cpu")]
    /\ device_of' = [device_of EXCEPT !["model"] = to(@, "cpu")]
    /\ model_out' = <<"model_out", weights'["model"]>>
    /\ UNCHANGED <<nb, tpc, it, n_steps, grads, loss, loss_ode,
                   loss_initial_position, loss_initial_speed, total_loss, printed,
                   solver, last_step>>
    /\ UNCHANGED <<runs, optimizer, left_by_run, substeps>>
    /\ UNCHANGED notTrain

-----------------------------------------------------------------------------
(* examples/pinn/exp-function-with-param.ipynb: the two conditions, the     *)
(* solver and the trainer.                                                  *)

\* I_x = Interval(X, 0, 1), I_k = Interval(K, 0, 2)
I_x == <<RInt(0), RInt(1)>>
I_k == <<RInt(0), RInt(2)>>

\* the points a sampler hands to its condition, <<x, k>> each; the random
\* points of the notebook are GridN points per axis here
sampler_points(sampler) ==
    LET xs == linspace(I_x[1], I_x[2], GridN)
        ks == linspace(I_k[1], I_k[2], GridN)
    IN  CASE sampler = "inner_sampler" ->
                [n \in 1..(GridN * GridN) |->
                    <<xs[((n - 1) \div GridN) + 1], ks[((n - 1) % GridN) + 1]>>]
          [] sampler = "boundary_sampler" ->
                [n \in 1..GridN |-> <<I_x[1], ks[n]>>]

\* def pde_residual(u, x, k): return tp.utils.grad(u, x) - k * u
pde_residual(w, x, k) ==
    RSub(param_model(w, x, k)[2], RMul(k, param_model(w, x, k)[1]))

\* a residual that compares with 0 instead of 1.0
boundary_residual_without_target(u_) == u_

\* def boundary_residual(u): return u - 1.0
boundary_residual(u_) == RSub(u_, RInt(1))

pde_condition ==
    [module |-> "model", sampler |-> "inner_sampler",
     residual_fn |-> "pde_residual", name |-> "pde_condition"]

boundary_condition ==
    [module |-> "model", sampler |-> "boundary_sampler",
     residual_fn |-> "boundary_residual", name |-> "boundary_condition"]

\* the loss of a condition for the parameters w of its module: the mean over
\* the sampled points of the squared residual
condition_loss(c, w) ==
    LET pts == sampler_points(c.sampler)
        r(n) == CASE c.residual_fn = "pde_residual" ->
                        pde_residual(w, pts[n][1], pts[n][2])
                  [] c.residual_fn = "boundary_residual" ->
                        boundary_residual(param_model(w, pts[n][1], pts[n][2])[1])
    IN  RDiv(RSum([n \in 1..Len(pts) |-> RMul(r(n), r(n))]), RInt(Len(pts)))

\* the loss of each condition for every member of the family
condition_losses ==
    [c \in {pde_condition, boundary_condition} |->
        [w \in 0..(NumNets - 1) |-> condition_loss(c, w)]]

\* a solver that keeps the first of its conditions only
Solver_first_condition_only(conditions) == [train_conditions |-> <<conditions[1]>>]

\* tp.solver.Solver(conditions): the solver trains on the conditions given
Solver(conditions) == [train_conditions |-> conditions]

NoStep == [params |-> -1, names |-> <<>>, losses |-> <<>>, loss |-> RInt(0),
           updated |-> {}]

\* the cells up to solver = tp.solver.Solver([pde_condition, boundary_condition])
\* and the start of trainer.fit(solver)
ParamBuild ==
    /\ nb = "param" /\ tpc = "idle"
    /\ solver' = Solver(<<pde_condition, boundary_condition>>)
    /\ it' = 0
    /\ n_steps' = 0
    /\ tpc' = IF it' < max_steps THEN "fit" ELSE "done"
    /\ UNCHANGED <<nb, weights, grads, model_out, loss, loss_ode,
                   loss_initial_position, loss_initial_speed, total_loss, printed,
                   last_step>>
    /\ UNCHANGED <<runs, optimizer, left_by_run>>
    /\ UNCHANGED <<substeps, device_of>>
    /\ UNCHANGED notTrain

\* one training step of trainer.fit(solver): the loss is the sum of the losses
\* of the solver's conditions, and the optimizer moves the parameters of the
\* modules of these conditions; the trainer stops at max_steps
TrainerStep ==
    /\ nb = "param" /\ tpc = "fit"
    /\ LET conds == solver.train_conditions
           losses == [i \in 1..Len(conds) |->
                         condition_losses[conds[i]][weights[conds[i].module]]]
           trained == {conds[i].module : i \in 1..Len(conds)}
       IN  /\ last_step' = [params |-> weights["model"],
                            names |-> [i \in 1..Len(conds) |-> conds[i].name],
                            losses |-> losses,
                            loss |-> RSum(losses),
                            updated |-> trained]
           /\ \E f \in [trained -> 0..(NumNets - 1)] :
                 weights' = [m \in DOMAIN weights |->
                                IF m \in trained THEN f[m] ELSE weights[m]]
    /\ n_steps' = n_steps + 1
    /\ it' = it + 1
    /\ tpc' = IF it' < max_steps THEN "fit" ELSE "done"
    /\ UNCHANGED <<nb, grads, model_out, loss, loss_ode,
                   loss_initial_position, loss_initial_speed, total_loss, printed,
                   solver>>
    /\ UNCHANGED <<runs, optimizer, left_by_run>>
    /\ UNCHANGED <<substeps, device_of>>
    /\ UNCHANGED notTrain

-----------------------------------------------------------------------------
(* examples/pinn/exp-function-with-param.ipynb: the error plot cell (lines  *)
(* 256-268), run after trainer.fit.                                         *)

\* k_tensor = torch.linspace(0, 2.0, 50)
n_k == 50

\* PlotSampler(plot_domain=I_x, n_points=100, ...)
n_points == 100

\* the tensors of this cell hold multiples of 1 / FloatScale
FloatScale == 10000

\* a real number as the tensor holds it
float(r) == Rat((r[1] * FloatScale) \div r[2], FloatScale)

RECURSIVE exp_series(_, _, _)
\* term + term q / n + term q^2 / (n (n + 1)) + ..., in multiples of 1 / FloatScale
exp_series(term, n, q) ==
    IF term = 0 THEN 0
    ELSE term + exp_series((term * q[1]) \div (q[2] * n), n + 1, q)

\* torch.exp(q) for 0 <= q, by the exponential series
torch_exp(q) == Rat(exp_series(FloatScale, 1, q), FloatScale)

\* torch.abs that keeps the sign
torch_abs_keeps_sign(a) == a

\* torch.abs(a)
torch_abs(a) == <<Abs(a[1]), a[2]>>

RECURSIVE torch_max(_)
\* torch.max(v): the largest entry of a tensor
torch_max(v) ==
    IF Len(v) = 1 THEN v[1]
    ELSE LET half == Len(v) \div 2
             a == torch_max(SubSeq(v, 1, half))
             b == torch_max(SubSeq(v, half + 1, Len(v)))
         IN  IF RLe(a, b) THEN b ELSE a

\* torch.zeros_like(v)
zeros_like(v) == [i \in 1..Len(v) |-> RInt(0)]

\* plot_sampler.sample_points(): n points of the plot domain, <<x, k>> each,
\* with k the value given for the other variable
sample_points(domain, n, k) ==
    [j \in 1..n |-> <<linspace(domain[1], domain[2], n)[j], k>>]

\* torch.max(torch.abs(out - torch.exp(k * inp_data[:, 'x']))) for the network
\* with parameters w
max_error(w, k) ==
    LET inp_data == sample_points(I_x, n_points, k)
        out == [j \in 1..Len(inp_data) |->
                   float(param_model(w, inp_data[j][1], inp_data[j][2])[1])]
    IN  torch_max([j \in 1..Len(inp_data) |->
                      torch_abs(RSub(out[j], torch_exp(RMul(k, inp_data[j][1]))))])

\* max_error for every member of the family and every k of k_tensor
max_errors ==
    [w \in 0..(NumNets - 1) |->
        [k \in {linspace(RInt(0), RInt(2), n_k)[i] : i \in 1..n_k} |-> max_error(w, k)]]

\* k_tensor = torch.linspace(0, 2.0, 50); error_tensor = torch.zeros_like(k_tensor)
EvalSetup ==
    /\ nb = "param" /\ tpc = "done" /\ epc = "none"
    /\ k_tensor' = linspace(RInt(0), RInt(2), n_k)
    /\ error_tensor' = zeros_like(k_tensor')
    /\ writes' = [i \in 1..Len(k_tensor') |-> 0]
    /\ eval_i' = 0
    /\ epc' = IF range_has_next(0, Len(k_tensor')) THEN "loop" ELSE "plot"
    /\ UNCHANGED notEval

\* one iteration of  for i in range(len(k_tensor))
EvalStep ==
    /\ epc = "loop"
    /\ error_tensor' = [error_tensor EXCEPT
                           ![eval_i + 1] = max_errors[weights["model"]][k_tensor[eval_i + 1]]]
    /\ writes' = [writes EXCEPT ![eval_i + 1] = @ + 1]
    /\ eval_i' = eval_i + 1
    /\ epc' = IF range_has_next(eval_i + 1, Len(k_tensor)) THEN "loop" ELSE "plot"
    /\ UNCHANGED k_tensor
    /\ UNCHANGED notEval

\* plt.plot(k_tensor, error_tensor.detach(), marker='o')
EvalPlot ==
    /\ epc = "plot"
    /\ epc' = "plotted"
    /\ UNCHANGED <<k_tensor, error_tensor, writes, eval_i>>
    /\ UNCHANGED notEval

-----------------------------------------------------------------------------
(* examples/pinn/exp-function-with-param.ipynb: the exact solution of the   *)
(* problem statement (lines 9-17) under the boundary residual, at a point   *)
(* (x, k) of I_x x I_k.                                                     *)

\* the points looked at: x = i / XSteps of I_x, k = 2 i / KSteps of I_k
XSteps == 4
KSteps == 8

\* The exact solution is u(x) = e^(kx)
exact_solution(x, k) == torch_exp(RMul(k, x))

ExactSolution ==
    /\ sol_pc = "point"
    /\ sol_u' = exact_solution(sol_x, sol_k)
    /\ sol_pc' = "solution"
    /\ UNCHANGED <<sol_x, sol_k, sol_res>>
    /\ UNCHANGED notExact

\* boundary_residual of the exact solution
ExactBoundaryResidual ==
    /\ sol_pc = "solution"
    /\ sol_res' = boundary_residual(sol_u)
    /\ sol_pc' = "residual"
    /\ UNCHANGED <<sol_x, sol_k, sol_u>>
    /\ UNCHANGED notExact

-----------------------------------------------------------------------------
(* examples/workshop/Exercise1_1.ipynb: indexing and slicing of a tensor of *)
(* shape (3, 2, 2).  An index is one item per dimension:                    *)
(*   [kind |-> "int", n |-> i]     the integer i                            *)
(*   [kind |-> "all", n |-> 0]     the slice  :                             *)
(*   [kind |-> "upto", n |-> k]    the slice  :k                            *)

At(i) == [kind |-> "int", n |-> i]
All == [kind |-> "all", n |-> 0]
Upto(k) == [kind |-> "upto", n |-> k]

\* torch.zeros(shape) for a shape of three dimensions
zeros(sh) == [i \in 1..sh[1] |-> [j \in 1..sh[2] |-> [k \in 1..sh[3] |-> RInt(0)]]]

\* tensor.shape
tensor_shape(T) == <<Len(T), Len(T[1]), Len(T[1][1])>>

\* an index item that takes the slice  :  for the position 0 alone
covers_first_only(item, p) ==
    CASE item.kind = "int" -> p = item.n
      [] item.kind = "all" -> p = 0
      [] item.kind = "upto" -> p < item.n

\* an index item that takes the slice  :k  up to k itself
covers_upto_inclusive(item, p) ==
    CASE item.kind = "int" -> p = item.n
      [] item.kind = "all" -> TRUE
      [] item.kind = "upto" -> p <= item.n

\* the index item selects the position p (0-based) of its dimension
covers(item, p) ==
    CASE item.kind = "int" -> p = item.n
      [] item.kind = "all" -> TRUE
      [] item.kind = "upto" -> p < item.n

\* the index selects the entry at pos = <<i, j, k>> (0-based)
selects(idx, pos) == \A d \in 1..3 : covers(idx[d], pos[d])

\* an index check that lets an integer equal to the size through
raises_IndexError_above_size(idx, sh) ==
    \E d \in 1..3 : idx[d].kind = "int" /\ idx[d].n > sh[d]

\* an integer index has to be smaller than the size of its dimension
raises_IndexError(idx, sh) ==
    \E d \in 1..3 : idx[d].kind = "int" /\ idx[d].n >= sh[d]

\* an in-place operation that assigns whatever the operator is
apply_assigns_always(op, old, v) == v

\* the new value of an entry under  = v,  += v,  *= v
apply(op, old, v) ==
    CASE op = "=" -> v
      [] op = "+=" -> RAdd(old, v)
      [] op = "*=" -> RMul(old, v)

\* the value the right-hand side has for the entry at pos: a scalar for every
\* entry, a vector entry by entry along the first sliced dimension
value_at(val, idx, pos) ==
    IF Len(val) = 1 THEN val[1]
    ELSE val[pos[CHOOSE d \in 1..3 : idx[d].kind # "int"
                                     /\ \A e \in 1..(d - 1) : idx[e].kind = "int"] + 1]

\* test_tensor[idx] op val
setitem(T, idx, op, val) ==
    [i \in 1..Len(T) |-> [j \in 1..Len(T[i]) |-> [k \in 1..Len(T[i][j]) |->
        IF selects(idx, <<i - 1, j - 1, k - 1>>)
        THEN apply(op, T[i][j][k], value_at(val, idx, <<i - 1, j - 1, k - 1>>))
        ELSE T[i][j][k]]]]

\* the positions (0-based) of the entries of a tensor
positions(T) ==
    {<<i, j, k>> : i \in 0..(Len(T) - 1), j \in 0..(Len(T[1]) - 1),
                   k \in 0..(Len(T[1][1]) - 1)}

\* test_tensor[idx] for an index of integers: the entry, <<>> if there is none
getitem(T, idx) ==
    LET hit == {p \in positions(T) : selects(idx, p)}
    IN  IF hit = {} THEN <<>>
        ELSE LET p == CHOOSE q \in hit : TRUE IN T[p[1] + 1][p[2] + 1][p[3] + 1]

\* a boolean index read as the integers 1 (True) and 0 (False)
bool_index_as_integers(T, mask) ==
    [n \in 1..Len(mask) |-> T[IF mask[n] THEN 2 ELSE 1]]

RECURSIVE bool_index(_, _)
\* test_tensor[mask] for a list of booleans, one per entry of the first axis:
\* a new tensor of the entries whose boolean is True
bool_index(T, mask) ==
    IF mask = <<>> THEN <<>>
    ELSE (IF Head(mask) THEN <<Head(T)>> ELSE <<>>) \o bool_index(Tail(T), Tail(mask))

\* the assignments of the notebook in the order of its cells, each with what
\* is printed after it and the boolean index that is printed then
statements ==
    << [idx |-> <<At(0), At(0), At(0)>>, op |-> "=", val |-> <<RInt(1)>>, print |-> "entry",
        mask |-> <<>>],
       [idx |-> <<At(0), At(0), At(1)>>, op |-> "=", val |-> <<RInt(2)>>, print |-> "none",
        mask |-> <<>>],
       [idx |-> <<At(2), At(1), At(0)>>, op |-> "=", val |-> <<RInt(5)>>, print |-> "tensor",
        mask |-> <<TRUE, FALSE, TRUE>>],
       [idx |-> <<All, At(0), At(0)>>, op |-> "=", val |-> <<RInt(2)>>, print |-> "tensor",
        mask |-> <<>>],
       [idx |-> <<All, At(1), All>>, op |-> "=", val |-> <<RInt(3)>>, print |-> "tensor",
        mask |-> <<>>],
       [idx |-> <<All, At(0), At(0)>>, op |-> "+=", val |-> <<RInt(1)>>, print |-> "tensor",
        mask |-> <<>>],
       [idx |-> <<All, At(0), At(1)>>, op |-> "=", val |-> linspace(RInt(1), RInt(3), 3),
        print |-> "tensor",
        mask |-> <<>>],
       [idx |-> <<Upto(2), At(0), All>>, op |-> "*=", val |-> <<RInt(-1)>>, print |-> "tensor",
        mask |-> <<>>] >>

NoWrite == [idx |-> <<>>, op |-> "none", val |-> <<>>]

\* test_tensor = torch.zeros((3, 2, 2))
CreateTensor ==
    /\ wpc = -1
    /\ test_tensor' = zeros(<<3, 2, 2>>)
    /\ prev_tensor' = test_tensor'
    /\ wpc' = 0
    /\ UNCHANGED <<wmode, shown, raised, last_write, read_value, n_tries, selected, reshaped>>
    /\ UNCHANGED notTensor

\* the next assignment of the notebook and the print after it
NotebookStep ==
    /\ wmode = "notebook"
    /\ wpc >= 0 /\ wpc < Len(statements)
    /\ LET s == statements[wpc + 1]
       IN  /\ test_tensor' = setitem(test_tensor, s.idx, s.op, s.val)
           /\ last_write' = [idx |-> s.idx, op |-> s.op, val |-> s.val]
           /\ shown' = CASE s.print = "tensor" -> test_tensor'
                         [] s.print = "entry" -> getitem(test_tensor', s.idx)
                         [] s.print = "none" -> shown
           /\ selected' = IF s.mask # <<>> THEN bool_index(test_tensor', s.mask)
                          ELSE selected
    /\ prev_tensor' = test_tensor
    /\ raised' = "none"
    /\ wpc' = wpc + 1
    /\ UNCHANGED <<wmode, read_value, n_tries, reshaped>>
    /\ UNCHANGED notTensor

\* the indices a reader of the notebook tries: per dimension an integer up to
\* MaxIndex (the size of the first dimension is 3), the slice : or the slice :2
MaxIndex == 3
MaxTries == 1

TriedItems(size) ==
    {At(i) : i \in 0..(IF size < MaxIndex THEN size ELSE MaxIndex)}
        \cup {All} \cup {Upto(k) : k \in 1..2}

TriedValues == {RInt(2), RInt(3)}

\* trying  test_tensor[i, j, k]  at some point of the notebook
TryRead ==
    /\ wpc >= 0
    /\ n_tries < MaxTries
    /\ \E i \in 0..MaxIndex, j \in 0..1, k \in 0..1 :
          LET idx == <<At(i), At(j), At(k)>>
          IN  /\ raised' = IF raises_IndexError(idx, tensor_shape(test_tensor))
                           THEN "IndexError" ELSE "none"
              /\ read_value' = getitem(test_tensor, idx)
              /\ last_write' = [idx |-> idx, op |-> "read", val |-> <<>>]
    /\ prev_tensor' = test_tensor
    /\ n_tries' = n_tries + 1
    /\ wmode' = "tried"
    /\ UNCHANGED <<test_tensor, wpc, shown, selected, reshaped>>
    /\ UNCHANGED notTensor

\* trying  test_tensor[mask]  for a list of three booleans
TryMask ==
    /\ wpc >= 0
    /\ n_tries < MaxTries
    /\ \E mask \in [1..3 -> BOOLEAN] :
          /\ selected' = bool_index(test_tensor, mask)
          /\ last_write' = [idx |-> <<All, All, All>>, op |-> "mask", val |-> mask]
    /\ raised' = "none"
    /\ prev_tensor' = test_tensor
    /\ n_tries' = n_tries + 1
    /\ wmode' = "tried"
    /\ UNCHANGED <<test_tensor, wpc, shown, read_value, reshaped>>
    /\ UNCHANGED notTensor

RECURSIVE numel(_)
\* the number of elements a shape stores
numel(sh) == IF sh = <<>> THEN 1 ELSE Head(sh) * numel(Tail(sh))

\* the elements of a matrix, column by column
flatten_matrix_by_columns(M) ==
    [n \in 1..(Len(M) * Len(M[1])) |->
        M[((n - 1) % Len(M)) + 1][((n - 1) \div Len(M)) + 1]]

\* the elements of a matrix in the order they are stored: row by row
flatten_matrix(M) ==
    [n \in 1..(Len(M) * Len(M[1])) |->
        M[((n - 1) \div Len(M[1])) + 1][((n - 1) % Len(M[1])) + 1]]

\* the elements of a tensor of three dimensions in the order they are stored:
\* matrix by matrix, each row by row
flatten_tensor(T) ==
    [n \in 1..(Len(T) * Len(T[1]) * Len(T[1][1])) |->
        flatten_matrix(T[((n - 1) \div (Len(T[1]) * Len(T[1][1]))) + 1])
            [((n - 1) % (Len(T[1]) * Len(T[1][1]))) + 1]]

\* flat.reshape(sh) for a shape of one or two dimensions; <<>> if the shape
\* does not store as many elements as flat has (a RuntimeError)
reshape_to(flat, sh) ==
    IF numel(sh) # Len(flat) THEN <<>>
    ELSE IF Len(sh) = 1 THEN flat
    ELSE reshape(flat, sh[1], sh[2])

\* tensor_1 = torch.tensor([[1, 2], [0, 5]])
tensor_1 == <<<<RInt(1), RInt(2)>>, <<RInt(0), RInt(5)>>>>

\* the reshape cell: print(tensor_1.reshape(4)); print(test_tensor);
\* print(test_tensor.reshape(3, 4))
ReshapeCell ==
    /\ wmode = "notebook"
    /\ wpc = Len(statements)
    /\ reshaped = <<>>
    /\ reshaped' = [vector |-> reshape_to(flatten_matrix(tensor_1), <<4>>),
                    batch |-> reshape_to(flatten_tensor(test_tensor), <<3, 4>>)]
    /\ shown' = test_tensor
    /\ UNCHANGED <<wmode, wpc, test_tensor, prev_tensor, last_write, raised, read_value,
                   n_tries, selected>>
    /\ UNCHANGED notTensor

\* the shapes a reader tries: vectors up to 12 elements, matrices of up to
\* MaxIndex + 1 rows and 6 columns
TriedShapes ==
    {<<n>> : n \in 1..12} \cup {<<rows, cols>> : rows \in 1..(MaxIndex + 1), cols \in 1..6}

\* trying  test_tensor.reshape(shape)  at some point of the notebook
TryReshape ==
    /\ wpc >= 0
    /\ n_tries < MaxTries
    /\ \E sh \in TriedShapes :
          /\ reshaped' = [vector |-> <<>>,
                          batch |-> reshape_to(flatten_tensor(test_tensor), sh)]
          /\ raised' = IF numel(sh) # numel(tensor_shape(test_tensor))
                       THEN "RuntimeError" ELSE "none"
          /\ last_write' = [idx |-> <<All, All, All>>, op |-> "reshape", val |-> sh]
    /\ prev_tensor' = test_tensor
    /\ n_tries' = n_tries + 1
    /\ wmode' = "tried"
    /\ UNCHANGED <<test_tensor, wpc, shown, read_value, selected>>
    /\ UNCHANGED notTensor

\* trying  test_tensor[idx] = v  at some point of the notebook
TryWrite ==
    /\ wpc >= 0
    /\ n_tries < MaxTries
    /\ \E a \in TriedItems(3), b \in TriedItems(2), c \in TriedItems(2), v \in TriedValues :
          LET idx == <<a, b, c>>
              err == raises_IndexError(idx, tensor_shape(test_tensor))
          IN  /\ raised' = IF err THEN "IndexError" ELSE "none"
              /\ test_tensor' = IF err THEN test_tensor
                                ELSE setitem(test_tensor, idx, "=", <<v>>)
              /\ last_write' = [idx |-> idx, op |-> "=", val |-> <<v>>]
    /\ prev_tensor' = test_tensor
    /\ n_tries' = n_tries + 1
    /\ wmode' = "tried"
    /\ UNCHANGED <<wpc, shown, read_value, selected, reshaped>>
    /\ UNCHANGED notTensor

-----------------------------------------------------------------------------
(* Exercise 1.3: the accuracy check cell computes real_out with D = 0.02    *)
(* (part_001 lines 32, 209-210).  sqrt(D g) is no rational number then; the *)
(* times looked at are t = ln(n) / (2 sqrt(D g)), for which                 *)
(* sqrt(D g) t = ln(n) / 2, and only the values are carried, no derivative. *)

NotCompared == [n |-> 0, stated |-> <<>>, reference |-> <<>>]

\* sqrt_term * t_plot at the time with e^(-2 sqrt(D g) t) = 1/n
sqrt_term_times(n) == <<VScale(Rat(1, 2), VLn(RInt(n))), RInt(0), RInt(0)>>

\* the time is in [t_min, t_max]: ln(n) <= n - 1 <= 2 sqrt(D g) t_max
InPlotRange(n, D) ==
    RLe(RMul(RInt(n - 1), RInt(n - 1)),
        RMul(RMul(RInt(4), RMul(D, g)), RMul(t_max, t_max)))

\* the stated closed form and real_out of the accuracy check cell at one time
CompareForms ==
    /\ compared = NotCompared
    /\ \E n \in {k \in 1..MaxN : InPlotRange(k, D_pinn)} :
          compared' = [n |-> n,
                       stated |-> stated_form(sqrt_term_times(n), D_pinn)[1],
                       reference |-> reference_form(sqrt_term_times(n), D_pinn)[1]]
    /\ UNCHANGED <<cells_run, v_D, v_t, v_u, v_real, ex_u_t, ex_analytical, higher>>
    /\ UNCHANGED notDiff

-----------------------------------------------------------------------------
(* The specifications: one per notebook part; the parts that are not run    *)
(* stay as they are before their first cell.                                *)

\* Exercise 1.2 before any of its cells has run
IdleData ==
    /\ dpc = "params"
    /\ rng = 0
    /\ input_training = <<>>
    /\ output_training = <<>>
    /\ input_testing = <<>>
    /\ output_testing = <<>>
    /\ data_index_for_plot = 0
    /\ shown_D = <<>>
    /\ plot_t = <<>>
    /\ plot_ref = <<>>

\* Exercise 1.3 a) before any of its cells has run
IdleDiff ==
    /\ cells_run = {}
    /\ v_D = RInt(1)
    /\ v_t = VRat(RInt(0))
    /\ v_u = <<>>
    /\ v_real = <<>>
    /\ ex_u_t = <<>>
    /\ ex_analytical = <<>>
    /\ higher = [requires_grad |-> TRUE, create_graph |-> TRUE, u_t |-> NotRun,
                 u_tt |-> NotRun]
    /\ compared = NotCompared

\* the training cells before any of them has run
IdleTrain ==
    /\ nb = "none"
    /\ tpc = "idle"
    /\ it = 0
    /\ n_steps = 0
    /\ weights = [m \in {"model"} |-> 0]
    /\ grads = NoGrad
    /\ model_out = <<>>
    /\ loss = <<>>
    /\ loss_ode = <<>>
    /\ loss_initial_position = <<>>
    /\ loss_initial_speed = <<>>
    /\ total_loss = <<>>
    /\ printed = NothingPrinted
    /\ solver = [train_conditions |-> <<>>]
    /\ last_step = NoStep
    /\ runs = 0
    /\ optimizer = NoOptimizer
    /\ left_by_run = weights["model"]
    /\ substeps = <<>>
    /\ device_of = [x \in moved_by(nb) |-> "cpu"]

\* the error plot cell before it has run
IdleEval ==
    /\ epc = "none"
    /\ k_tensor = <<>>
    /\ error_tensor = <<>>
    /\ eval_i = 0
    /\ writes = <<>>

\* the exact solution before it is looked at
IdleExact ==
    /\ sol_pc = "point"
    /\ sol_x = RInt(0)
    /\ sol_k = RInt(0)
    /\ sol_u = <<>>
    /\ sol_res = <<>>

\* the workshop notebook before test_tensor is created
IdleTensor ==
    /\ wmode = "notebook"
    /\ wpc = -1
    /\ test_tensor = <<>>
    /\ prev_tensor = <<>>
    /\ last_write = NoWrite
    /\ shown = <<>>
    /\ raised = "none"
    /\ read_value = <<>>
    /\ n_tries = 0
    /\ selected = <<>>
    /\ reshaped = <<>>

InitData ==
    /\ IdleTensor
    /\ IdleDiff
    /\ IdleExact
    /\ IdleTrain
    /\ IdleEval
    /\ dpc = "params"
    /\ rng \in 0..(RandMod - 1)
    /\ input_training = <<>>
    /\ output_training = <<>>
    /\ input_testing = <<>>
    /\ output_testing = <<>>
    /\ data_index_for_plot = 0
    /\ shown_D = <<>>
    /\ plot_t = <<>>
    /\ plot_ref = <<>>

NextData == CreateDataset \/ AccuracyCheck

SpecData == InitData /\ [][NextData]_vars

InitDiff ==
    /\ IdleTensor
    /\ IdleData
    /\ IdleExact
    /\ IdleTrain
    /\ IdleEval
    /\ cells_run = {}
    /\ v_D \in {D \in DSamples : RLe(D_min, D) /\ RLe(D, D_max)}
    /\ v_t \in {LnTime(n, v_D) : n \in {m \in 1..MaxN : InTimeRange(m, v_D)}}
    /\ v_u = <<>>
    /\ v_real = <<>>
    /\ ex_u_t = <<>>
    /\ ex_analytical = <<>>
    /\ higher \in [requires_grad : BOOLEAN, create_graph : BOOLEAN, u_t : {NotRun},
                  u_tt : {NotRun}]
    /\ compared = NotCompared

NextDiff ==
    \/ AutogradExample \/ VerifyODE \/ ReferenceSolution
    \/ FirstDerivative \/ SecondDerivative \/ CompareForms

SpecDiff == InitDiff /\ [][NextDiff]_vars

\* one of the three notebooks is run, its network freshly initialised
InitTrain ==
    /\ IdleTensor
    /\ IdleData
    /\ IdleExact
    /\ IdleDiff
    /\ IdleEval
    /\ nb \in {"data", "pinn", "param"}
    /\ tpc = "idle"
    /\ it = 0
    /\ n_steps = 0
    /\ weights \in [{"model"} -> 0..(NumNets - 1)]
    /\ grads = NoGrad
    /\ model_out = <<>>
    /\ loss = <<>>
    /\ loss_ode = <<>>
    /\ loss_initial_position = <<>>
    /\ loss_initial_speed = <<>>
    /\ total_loss = <<>>
    /\ printed = NothingPrinted
    /\ solver = [train_conditions |-> <<>>]
    /\ last_step = NoStep
    /\ runs = 0
    /\ optimizer = NoOptimizer
    /\ left_by_run = weights["model"]
    /\ substeps = <<>>
    /\ device_of = [x \in moved_by(nb) |-> "cpu"]

NextTrain ==
    \/ DataSetup \/ DataEvaluate \/ DataLoss \/ DataBackward \/ DataStep \/ DataReport
    \/ PinnSetup \/ PinnForward \/ PinnReport \/ PinnZeroGrad \/ PinnBackward \/ PinnStep
    \/ AccuracyCell
    \/ ParamBuild \/ TrainerStep
    \/ EvalSetup \/ EvalStep \/ EvalPlot

SpecTrain == InitTrain /\ [][NextTrain]_vars

InitExact ==
    /\ IdleTensor
    /\ IdleData
    /\ IdleDiff
    /\ IdleTrain
    /\ IdleEval
    /\ sol_pc = "point"
    /\ sol_x \in {Rat(i, XSteps) : i \in 0..XSteps}
    /\ sol_k \in {Rat(2 * i, KSteps) : i \in 0..KSteps}
    /\ sol_u = <<>>
    /\ sol_res = <<>>

NextExact == ExactSolution \/ ExactBoundaryResidual

SpecExact == InitExact /\ [][NextExact]_vars

InitTensor ==
    /\ IdleData
    /\ IdleDiff
    /\ IdleTrain
    /\ IdleEval
    /\ IdleExact
    /\ IdleTensor

NextTensor ==
    \/ CreateTensor \/ NotebookStep \/ ReshapeCell
    \/ TryRead \/ TryWrite \/ TryMask \/ TryReshape

SpecTensor == InitTensor /\ [][NextTensor]_vars

-----------------------------------------------------------------------------
(* Claims about the dataset of Exercise 1.2, checked under SpecData.        *)

\* the time column of row i of an input tensor: input[i, :, 1]
TimeSlice(inp, i) == [k \in 1..Len(inp[i]) |-> inp[i][k][2]]

\* a vector of equidistant points from lo to hi, both ends included
Equidistant(v, lo, hi) ==
    /\ v[1] = lo
    /\ v[Len(v)] = hi
    /\ \A k \in 1..(Len(v) - 1) : RSub(v[k + 1], v[k]) = RSub(v[2], v[1])

\* C1: once the dataset cell has run with N_D_train = 500 and N_t_train = 50,
\* input_training has shape (500, 50, 2), output_training has shape (500, 50, 1),
\* and every slice input_training[i, :, 1] is one and the same equidistant time
\* grid from t_min = 0 to t_max = 3.
C1_TrainingShapeAndGrid ==
    dpc # "params" =>
        /\ shape(input_training) = <<500, 50, 2>>
        /\ shape(output_training) = <<500, 50, 1>>
        /\ Equidistant(TimeSlice(input_training, 1), RInt(0), RInt(3))
        /\ \A i \in 1..500 :
              TimeSlice(input_training, i) = TimeSlice(input_training, 1)

C1_Witness ==
    /\ dpc = "dataset"
    /\ Len(input_training) = 500
    /\ input_training[500][50][2] = RInt(3)
    /\ input_training[500][1][2] = RInt(0)

\* every row of the input is a (parameter, time) pair and the target is the closed
\* form at that pair: D constant along k and inside [D_min, D_max], the time the
\* k-th of n equidistant points of [0, 3]
PairLayout(inp, out) ==
    \A i \in 1..Len(inp) : \A k \in 1..Len(inp[i]) :
        /\ Len(inp[i][k]) = 2
        /\ inp[i][k][1] = inp[i][1][1]
        /\ RLe(Rat(1, 100), inp[i][k][1]) /\ RLe(inp[i][k][1], RInt(1))
        /\ inp[i][k][2] = Rat(3 * (k - 1), Len(inp[i]) - 1)
        /\ out[i][k] = <<u_at(Rat(3 * (k - 1), Len(inp[i]) - 1), inp[i][1][1])>>

\* C2: in the four dataset tensors input[i, k] = (D_i, t_k) and
\* output[i, k] = u(t_k; D_i), and the accuracy-check cell reads them with this
\* layout: the printed D is the D of the plotted row, the x-axis is the time grid
\* and the reference curve is u at those times for that D.
C2_PairLayoutAndReads ==
    /\ dpc # "params" =>
          /\ PairLayout(input_training, output_training)
          /\ PairLayout(input_testing, output_testing)
    /\ dpc = "checked" =>
          /\ \A k \in 1..Len(plot_t) :
                /\ input_testing[data_index_for_plot + 1][k] = <<shown_D, plot_t[k]>>
                /\ plot_ref[k] = <<u_at(plot_t[k], shown_D)>>
          /\ RLe(Rat(1, 100), shown_D) /\ RLe(shown_D, RInt(1))
          /\ Equidistant(plot_t, RInt(0), RInt(3))

C2_Witness ==
    /\ dpc = "checked"
    /\ data_index_for_plot = 2
    /\ shown_D # input_testing[1][1][1]
    /\ Len(plot_t) = 50

-----------------------------------------------------------------------------
(* Claims about the closed form and the autograd example of Exercise 1.3,   *)
(* checked under SpecDiff.                                                  *)

RAbs(a) == <<Abs(a[1]), a[2]>>

\* the tolerance 1e-5 of the comparisons
Within(a, b) == RLe(RAbs(RSub(a, b)), Rat(1, 100000))

\* C4: the closed form u(t; D) stated in the notebooks solves the ODE: at every
\* point looked at, its second time derivative equals D (u_t)^2 - g.
C4_StatedFormSolvesODE ==
    "verify" \in cells_run => v_u[3] = ode_rhs(v_D, v_u[2])

\* the reference solution real_out of the accuracy-check cell does solve the ODE
\* and has zero initial velocity (the behaviour C4 and C5 expect of u)
RealOutSolvesODE ==
    "reference" \in cells_run =>
        /\ v_real[3] = ode_rhs(v_D, v_real[2])
        /\ v_t = VRat(RInt(0)) => v_real[2] = RInt(0) /\ v_real[1] = VRat(H)

\* C5: the time derivative of the stated closed form at t = 0 is 0 within
\* floating-point tolerance, for every sampled D.
C5_StatedFormInitialVelocity ==
    ("verify" \in cells_run /\ v_t = VRat(RInt(0))) => Within(v_u[2], RInt(0))

\* C6: with g = 9.81 and H = 50.0 the stated closed form has u(0; D) = H for
\* every sampled D in [0.01, 1.0].
C6_StatedFormInitialPosition ==
    ("verify" \in cells_run /\ v_t = VRat(RInt(0))) => v_u[1] = VRat(RInt(50))

C6_Witness ==
    /\ "verify" \in cells_run
    /\ v_t = VRat(RInt(0))
    /\ v_D = Rat(100, 981)
    /\ v_u[1] = VRat(RInt(50))

\* C7: in the autograd example, for u = t^2 at t = 0, 1, ..., 10 the derivative
\* of sum(u) with respect to t is 2t entry by entry, (0, 2, 4, ..., 20), equal
\* to the analytical derivative within 1e-5.
C7_AutogradExample ==
    "example" \in cells_run =>
        /\ ex_u_t = [i \in 1..11 |-> RInt(2 * (i - 1))]
        /\ Len(ex_analytical) = 11
        /\ \A i \in 1..11 : Within(ex_u_t[i], ex_analytical[i])

C7_Witness ==
    /\ "example" \in cells_run
    /\ Len(ex_u_t) = 11
    /\ ex_u_t[11] = RInt(20)
    /\ ex_analytical[11] = RInt(20)

-----------------------------------------------------------------------------
(* Claims about the training cells, checked under SpecTrain.                *)

\* the square of a rational
RSq(a) == RMul(a, a)

\* for every network of the family: the mean over the time grid of
\* (u_tt - (D (u_t)^2 - g))^2, then (u(0) - H)^2, then (u_t(0) - 0)^2
ThreeLosses ==
    [w \in 0..(NumNets - 1) |->
        LET ts == linspace(t_min, t_max, GridN)
            res(i) == RSub(model_jet(w, ts[i])[3],
                           RSub(RMul(D_pinn, RSq(model_jet(w, ts[i])[2])), g))
        IN  << RDiv(RSum([i \in 1..GridN |-> RSq(res(i))]), RInt(GridN)),
               RSq(RSub(model_jet(w, RInt(0))[1], H)),
               RSq(RSub(model_jet(w, RInt(0))[2], RInt(0))) >>]

\* C3: in every iteration of the physics-informed loop, once the losses of
\* the iteration are computed, total_loss is the plain sum, no weights, of
\* three mean squared errors for the current network: u_tt against
\* D (u_t)^2 - g over the time grid, the output at t = 0 against H, and the
\* time derivative at t = 0 against 0; and total_loss is what backward()
\* differentiates for the optimizer step.
C3_TotalLossIsSumOfThree ==
    (nb = "pinn" /\ tpc \in {"report", "zero_grad", "backward", "step"}) =>
        LET w == weights["model"]
            e == ThreeLosses[w]
        IN  /\ loss_ode = e[1]
            /\ loss_initial_position = e[2]
            /\ loss_initial_speed = e[3]
            /\ total_loss = RAdd(e[1], RAdd(e[2], e[3]))
            /\ tpc = "step" => grads = [of |-> "total_loss", at |-> w]

C3_Witness ==
    /\ nb = "pinn" /\ tpc = "step" /\ it > 0
    /\ RLt(RInt(0), loss_ode)
    /\ RLt(RInt(0), loss_initial_position)
    /\ RLt(RInt(0), loss_initial_speed)
    /\ grads.of = "total_loss"

\* the number of steps the run of a notebook is configured for
configured_steps == IF nb = "param" THEN max_steps ELSE train_iterations

\* C8: a training run is over exactly when it has done its configured number
\* of iterations, 5000 for the supervised and the physics-informed loop and
\* 8000 for the trainer, each iteration with one optimizer step; never
\* earlier, never later, whatever the losses are.
C8_FixedNumberOfSteps ==
    /\ train_iterations = 5000 /\ max_steps = 8000
    /\ it <= configured_steps
    /\ tpc = "done" <=> it = configured_steps
    /\ tpc = "done" => n_steps = configured_steps
    /\ n_steps \in {it, it + 1}
    /\ nb = "param" => n_steps = it

C8_Witness ==
    /\ nb = "pinn" /\ tpc = "done"
    /\ it = train_iterations /\ n_steps = train_iterations
    /\ printed.k = train_iterations - 1

\* for every network of the family: the mean of (du/dx - k u)^2 over the
\* inner points, then the mean of (u - 1)^2 over the points with x = 0
BothResiduals ==
    [w \in 0..(NumNets - 1) |->
        LET xs == linspace(RInt(0), RInt(1), GridN)
            ks == linspace(RInt(0), RInt(2), GridN)
        IN  << RDiv(RSum([n \in 1..(GridN * GridN) |->
                      LET x == xs[((n - 1) \div GridN) + 1]
                          k == ks[((n - 1) % GridN) + 1]
                      IN  RSq(RSub(param_model(w, x, k)[2],
                                   RMul(k, param_model(w, x, k)[1])))]),
                    RInt(GridN * GridN)),
               RDiv(RSum([n \in 1..GridN |->
                      RSq(RSub(param_model(w, RInt(0), ks[n])[1], RInt(1)))]),
                    RInt(GridN)) >>]

\* C10: both conditions name the one model, the solver holds both, and every
\* step of the trainer computes the loss from both residuals, du/dx - k u on
\* the inner points and u - 1 on the left boundary, for the same parameters
\* and updates the parameters of that model alone.
C10_SharedModelBothConditions ==
    /\ pde_condition.module = "model" /\ boundary_condition.module = "model"
    /\ DOMAIN weights = {"model"}
    /\ (nb = "param" /\ tpc # "idle") =>
          solver.train_conditions = <<pde_condition, boundary_condition>>
    /\ (nb = "param" /\ n_steps > 0) =>
          LET pde == BothResiduals[last_step.params][1]
              bnd == BothResiduals[last_step.params][2]
          IN  /\ last_step.names = <<"pde_condition", "boundary_condition">>
              /\ last_step.losses = <<pde, bnd>>
              /\ last_step.loss = RAdd(pde, bnd)
              /\ last_step.updated = {"model"}

C10_Witness ==
    /\ nb = "param" /\ n_steps > 1
    /\ Len(last_step.losses) = 2
    /\ RLt(RInt(0), last_step.losses[1])
    /\ RLt(RInt(0), last_step.losses[2])
    /\ weights["model"] # last_step.params

-----------------------------------------------------------------------------
(* Claims about the error plot cell, checked under SpecTrain.               *)

\* for every network of the family, |model(x_j, k_i) - e^(k_i x_j)| at the j-th
\* of 100 equidistant x of [0, 1] and the i-th of 50 equidistant k of [0, 2]
AbsErrors ==
    [w \in 0..(NumNets - 1) |->
        [i \in 1..50 |->
            [j \in 1..100 |->
                LET x == Rat(j - 1, 99)
                    k == Rat(2 * (i - 1), 49)
                    d == RSub(float(param_model(w, x, k)[1]), torch_exp(RMul(k, x)))
                IN  IF RLe(RInt(0), d) THEN d ELSE RNeg(d)]]]

\* C11: the loop of the error plot cell writes every one of the 50 entries of
\* error_tensor exactly once; entry i is the maximum over the 100 sampled x
\* of |model(x, k_i) - e^(k_i x)| for k_i the i-th of 50 equidistant values of
\* [0, 2]; every entry is non-negative and every k_i lies in the trained
\* interval I_k.
C11_MaxErrorPerParameter ==
    epc # "none" =>
        /\ Len(k_tensor) = 50 /\ Len(error_tensor) = 50
        /\ \A i \in 1..50 :
              /\ k_tensor[i] = Rat(2 * (i - 1), 49)
              /\ RLe(I_k[1], k_tensor[i]) /\ RLe(k_tensor[i], I_k[2])
              /\ writes[i] = IF i <= eval_i THEN 1 ELSE 0
              /\ RLe(RInt(0), error_tensor[i])
        /\ epc \in {"plot", "plotted"} => eval_i = 50
        /\ \A i \in 1..eval_i :
              LET errs == AbsErrors[weights["model"]][i]
              IN  /\ \A j \in 1..100 : RLe(errs[j], error_tensor[i])
                  /\ \E j \in 1..100 : errs[j] = error_tensor[i]

C11_Witness ==
    /\ epc = "plotted"
    /\ eval_i = 50
    /\ \A i \in 1..50 : writes[i] = 1
    /\ RLt(RInt(0), error_tensor[50])
    /\ error_tensor[1] # error_tensor[50]

-----------------------------------------------------------------------------
(* Claims about the exact solution e^(kx), checked under SpecExact.         *)

\* C12: the exact solution u(x, k) = e^(kx) has u(0, k) = 1 for every k of
\* [0, 2], so the boundary residual u - 1.0 of the exact solution at the left
\* edge x = 0 is zero for every k.
C12_ExactSolutionMeetsBoundary ==
    /\ (sol_pc # "point" /\ sol_x = RInt(0)) => sol_u = RInt(1)
    /\ (sol_pc = "residual" /\ sol_x = RInt(0)) => sol_res = RInt(0)

C12_Witness ==
    /\ sol_pc = "residual"
    /\ sol_x = RInt(0)
    /\ sol_k = RInt(2)
    /\ sol_res = RInt(0)

-----------------------------------------------------------------------------
(* Claims about re-running the supervised training cell, checked under      *)
(* SpecTrain.                                                               *)

\* C13: the supervised training cell can be run again: every run starts from
\* the parameters the previous run left (the first from the constructed
\* model), does another train_iterations optimizer steps, and only the
\* optimizer is made anew, once per run.
C13_RerunContinuesTraining ==
    nb = "data" =>
        /\ (tpc = "evaluate" /\ it = 0) => weights["model"] = left_by_run
        /\ tpc = "done" => (n_steps = train_iterations /\ left_by_run = weights["model"])
        /\ tpc # "idle" => optimizer = [params |-> "model", created_in_run |-> runs]
        /\ DOMAIN weights = {"model"}

C13_Witness ==
    /\ nb = "data" /\ runs = 2 /\ tpc = "done"
    /\ n_steps = train_iterations
    /\ optimizer.created_in_run = 2
    /\ printed.k = train_iterations - 1

-----------------------------------------------------------------------------
\* the float tensor with the given integer entries
Out(v) == [i \in 1..Len(v) |-> [j \in 1..Len(v[i]) |-> [k \in 1..Len(v[i][j]) |->
              RInt(v[i][j][k])]]]

\* the tensors the output cells of the notebook show, by the number of
\* assignments carried out before the print
notebook_output ==
    [n \in {3, 4, 5, 6, 7, 8} |->
        CASE n = 3 -> Out(<< <<<<1, 2>>, <<0, 0>>>>, <<<<0, 0>>, <<0, 0>>>>, <<<<0, 0>>, <<5, 0>>>> >>)
          [] n = 4 -> Out(<< <<<<2, 2>>, <<0, 0>>>>, <<<<2, 0>>, <<0, 0>>>>, <<<<2, 0>>, <<5, 0>>>> >>)
          [] n = 5 -> Out(<< <<<<2, 2>>, <<3, 3>>>>, <<<<2, 0>>, <<3, 3>>>>, <<<<2, 0>>, <<3, 3>>>> >>)
          [] n = 6 -> Out(<< <<<<3, 2>>, <<3, 3>>>>, <<<<3, 0>>, <<3, 3>>>>, <<<<3, 0>>, <<3, 3>>>> >>)
          [] n = 7 -> Out(<< <<<<3, 1>>, <<3, 3>>>>, <<<<3, 2>>, <<3, 3>>>>, <<<<3, 3>>, <<3, 3>>>> >>)
          [] n = 8 -> Out(<< <<<<-3, -1>>, <<3, 3>>>>, <<<<-3, -2>>, <<3, 3>>>>, <<<<3, 3>>, <<3, 3>>>> >>)]

\* C14: run in the order of the notebook from torch.zeros((3, 2, 2)), the
\* assignments [0,0,0]=1, [0,0,1]=2, [2,1,0]=5, [:,0,0]=2, [:,1,:]=3,
\* [:,0,0]+=1, [:,0,1]=(1,2,3), [:2,0,:]*=-1 give, at every print of the
\* tensor, the tensor the output cell shows, and at the end
\* [[[-3,-1],[3,3]], [[-3,-2],[3,3]], [[3,3],[3,3]]].
C14_TensorAfterEachStep ==
    wmode = "notebook" =>
        /\ wpc = 0 => test_tensor = Out(<< <<<<0, 0>>, <<0, 0>>>>, <<<<0, 0>>, <<0, 0>>>>,
                                           <<<<0, 0>>, <<0, 0>>>> >>)
        /\ wpc \in DOMAIN notebook_output =>
               /\ shown = notebook_output[wpc]
               /\ test_tensor = notebook_output[wpc]
        /\ wpc <= Len(statements)
        /\ Len(statements) \in DOMAIN notebook_output

C14_Witness ==
    /\ wmode = "notebook"
    /\ wpc = 8
    /\ shown = Out(<< <<<<-3, -1>>, <<3, 3>>>>, <<<<-3, -2>>, <<3, 3>>>>, <<<<3, 3>>, <<3, 3>>>> >>)

-----------------------------------------------------------------------------
-----------------------------------------------------------------------------
\* the statements of one iteration k of the supervised loop, in their order
data_iteration(k) ==
    <<"evaluate", "loss", "backward", "step">>
        \o (IF k = 0 \/ k % 250 = 249 THEN <<"log">> ELSE <<>>)

\* the statements of one iteration k of the physics-informed loop, in their order
pinn_iteration(k) ==
    <<"evaluate", "loss">>
        \o (IF k % 250 = 0 \/ k = 4999 THEN <<"log">> ELSE <<>>)
        \o <<"zero_grad", "backward", "step">>

IsPrefix(s, full) == Len(s) <= Len(full) /\ s = SubSeq(full, 1, Len(s))

\* the place of a statement in the order: evaluate, loss, propagate
\* gradients, update, log
place_with_log_last(name) ==
    CASE name = "evaluate" -> 1
      [] name = "loss" -> 2
      [] name = "zero_grad" -> 3
      [] name = "backward" -> 4
      [] name = "step" -> 5
      [] name = "log" -> 6

\* C16 as stated: in both loops every iteration runs evaluate, loss, gradient
\* propagation, parameter update and then, on reporting iterations, the log.
C16_LogAfterUpdate ==
    nb \in {"data", "pinn"} =>
        \A i, j \in 1..Len(substeps) :
            i < j => place_with_log_last(substeps[i]) < place_with_log_last(substeps[j])

\* C16, corrected: the supervised loop runs evaluate, loss, gradient
\* propagation, parameter update and then, on reporting iterations, the log;
\* the physics-informed loop runs evaluate, loss, on reporting iterations the
\* log, and then zero_grad, backward of total_loss and one optimizer step.
C16_SubstepOrder ==
    /\ nb = "data" =>
           /\ IsPrefix(substeps, data_iteration(IF tpc \in {"evaluate", "done"}
                                                THEN it - 1 ELSE it))
               \/ (it = 0 /\ substeps = <<>>)
           /\ (it > 0 /\ tpc \in {"evaluate", "done"}) => substeps = data_iteration(it - 1)
    /\ nb = "pinn" =>
           /\ IsPrefix(substeps, pinn_iteration(IF tpc \in {"forward", "done"}
                                                THEN it - 1 ELSE it))
               \/ (it = 0 /\ substeps = <<>>)
           /\ (it > 0 /\ tpc \in {"forward", "done"}) => substeps = pinn_iteration(it - 1)
           /\ tpc = "step" => grads = [of |-> "total_loss", at |-> weights["model"]]

C16_Witness ==
    /\ nb = "pinn" /\ it = 1 /\ tpc = "forward"
    /\ substeps = <<"evaluate", "loss", "log", "zero_grad", "backward", "step">>

-----------------------------------------------------------------------------
\* C17: the second differentiation pass succeeds exactly if t carries
\* requires_grad=True and the first derivative was taken with
\* create_graph=True; a first derivative taken without create_graph cannot be
\* differentiated (an error), and without requires_grad on t already the
\* first pass is an error.
C17_SecondPassNeedsGraph ==
    /\ "first" \in cells_run =>
           /\ higher.u_t.status = "ok" <=> higher.requires_grad
           /\ higher.u_t.status = "ok" =>
                  \A i \in 1..11 : higher.u_t.entries[i][1] = RInt(2 * (i - 1))
    /\ "second" \in cells_run =>
           /\ higher.u_tt.status = "ok" <=> (higher.requires_grad /\ higher.create_graph)
           /\ (higher.requires_grad /\ ~higher.create_graph) =>
                  (higher.u_t.status = "ok" /\ higher.u_tt.status = "RuntimeError")
           /\ higher.u_tt.status = "ok" =>
                  \A i \in 1..11 : higher.u_tt.entries[i][1] = RInt(2)

C17_Witness ==
    /\ "second" \in cells_run
    /\ higher.requires_grad /\ ~higher.create_graph
    /\ higher.u_t.status = "ok"
    /\ higher.u_tt = Raised

-----------------------------------------------------------------------------
\* the optimizer is at its step: optimizer.step() of the two loops, the
\* training step of the trainer
AtOptimizerStep ==
    \/ nb \in {"data", "pinn"} /\ tpc = "step"
    \/ nb = "param" /\ tpc = "fit"

\* C18: the parameter values of the network change only at optimizer.step(),
\* once per iteration: model.to, the evaluation, the losses, the log, the
\* accuracy check cells and the error plot cell leave them as they are.
C18_OptimizerSoleMutator ==
    /\ [][weights' # weights =>
              /\ AtOptimizerStep
              /\ n_steps' = n_steps + 1
              /\ it' = it \/ it' = it + 1]_vars
    /\ [](n_steps \in {it, it + 1})

C18_Witness ==
    /\ nb = "pinn" /\ tpc = "done"
    /\ device_of["model"] = "cpu"
    /\ model_out = <<"model_out", weights["model"]>>
    /\ weights["model"] # left_by_run
    /\ n_steps = train_iterations

-----------------------------------------------------------------------------
\* the training loop of Exercise 1.2 or 1.3 is running
InLoop == nb \in {"data", "pinn"} /\ tpc \notin {"idle", "done"}

\* C19: the model and the training tensors are moved to the GPU once, before
\* the loop starts; inside the loop nothing is moved, so that the model and
\* its inputs are on the same device, the GPU, in every iteration.
C19_DevicePlacementBeforeLoop ==
    /\ [](InLoop => \A x \in DOMAIN device_of : device_of[x] = "cuda")
    /\ [](nb \in {"data", "pinn"} => DOMAIN device_of = moved_by(nb))
    /\ [][device_of' # device_of => ~InLoop]_vars

C19_Witness ==
    /\ nb = "data" /\ runs = 2 /\ tpc = "step" /\ it = 1
    /\ device_of = [x \in {"model", "input_training", "output_training"} |-> "cuda"]

-----------------------------------------------------------------------------
\* C20: an assignment with ':' at an index position assigns for every entry
\* of that dimension and for nothing else: test_tensor[:, 0, 0] = 2 sets the
\* entries (i, 0, 0) to 2 and leaves the others, test_tensor[:, 1, :] = 3 sets
\* the entries (i, 1, j) to 3 and leaves row 0; the same for every tried
\* assignment through integers and ':'.
C20_ColonAssignsWholeDimension ==
    /\ (wmode = "notebook" /\ wpc = 4) =>
           \A i \in 1..3, j \in 1..2, k \in 1..2 :
               test_tensor[i][j][k] = IF j = 1 /\ k = 1 THEN RInt(2)
                                      ELSE prev_tensor[i][j][k]
    /\ (wmode = "notebook" /\ wpc = 5) =>
           \A i \in 1..3, j \in 1..2, k \in 1..2 :
               test_tensor[i][j][k] = IF j = 2 THEN RInt(3) ELSE prev_tensor[i][j][k]
    /\ (wmode = "tried" /\ last_write.op = "=" /\ raised = "none"
          /\ \A d \in 1..3 : last_write.idx[d].kind \in {"int", "all"}) =>
           \A i \in 1..3, j \in 1..2, k \in 1..2 :
               LET pos == <<i - 1, j - 1, k - 1>>
                   named == \A d \in 1..3 : \/ last_write.idx[d].kind = "all"
                                            \/ last_write.idx[d].n = pos[d]
               IN  test_tensor[i][j][k] = IF named THEN last_write.val[1]
                                          ELSE prev_tensor[i][j][k]

C20_Witness ==
    /\ wmode = "notebook" /\ wpc = 5
    /\ prev_tensor[3][2][1] = RInt(5) /\ test_tensor[3][2][1] = RInt(3)
    /\ prev_tensor[2][2][2] = RInt(0) /\ test_tensor[2][2][2] = RInt(3)
    /\ test_tensor[1] = <<<<RInt(2), RInt(2)>>, <<RInt(3), RInt(3)>>>>

-----------------------------------------------------------------------------
\* C21: the slice ':k' covers the indices 0..k-1 and no other:
\* test_tensor[:2, 0, :] *= -1 negates the top rows of the matrices 0 and 1
\* and leaves matrix 2 and every bottom row; a tried assignment through ':k'
\* reaches the positions below k only.
C21_BoundedSliceStopsBeforeK ==
    /\ (wmode = "notebook" /\ wpc = 8) =>
           \A i \in 1..3, j \in 1..2, k \in 1..2 :
               test_tensor[i][j][k] = IF i \in {1, 2} /\ j = 1
                                      THEN RNeg(prev_tensor[i][j][k])
                                      ELSE prev_tensor[i][j][k]
    /\ (wmode = "tried" /\ last_write.op = "=" /\ raised = "none") =>
           \A i \in 1..3, j \in 1..2, k \in 1..2 :
               LET pos == <<i - 1, j - 1, k - 1>>
                   named == \A d \in 1..3 :
                               \/ last_write.idx[d].kind = "all"
                               \/ last_write.idx[d].kind = "int"
                                     /\ last_write.idx[d].n = pos[d]
                               \/ last_write.idx[d].kind = "upto"
                                     /\ pos[d] \in 0..(last_write.idx[d].n - 1)
               IN  test_tensor[i][j][k] = IF named THEN last_write.val[1]
                                          ELSE prev_tensor[i][j][k]

C21_Witness ==
    /\ wmode = "notebook" /\ wpc = 8
    /\ prev_tensor[1][1] = <<RInt(3), RInt(1)>> /\ test_tensor[1][1] = <<RInt(-3), RInt(-1)>>
    /\ prev_tensor[2][1] = <<RInt(3), RInt(2)>> /\ test_tensor[2][1] = <<RInt(-3), RInt(-2)>>
    /\ test_tensor[3] = prev_tensor[3]

-----------------------------------------------------------------------------
\* the n-th position (1-based) of the first axis whose boolean is True
nth_true(mask, n) ==
    CHOOSE i \in 1..Len(mask) :
        mask[i] /\ Cardinality({j \in 1..i : mask[j]}) = n

\* C22: test_tensor[[True, False, True]] is the first and the last matrix of
\* the tensor, in this order, a tensor of shape (2, 2, 2), and the tensor
\* itself stays as it is; a tried boolean index returns the matrices whose
\* boolean is True, in their order.
C22_BooleanIndexFirstAndLast ==
    /\ (wmode = "notebook" /\ wpc >= 3) =>
           /\ selected = Out(<< <<<<1, 2>>, <<0, 0>>>>, <<<<0, 0>>, <<5, 0>>>> >>)
           /\ tensor_shape(selected) = <<2, 2, 2>>
    /\ (wmode = "notebook" /\ wpc = 3) =>
           /\ selected = <<test_tensor[1], test_tensor[3]>>
           /\ test_tensor = notebook_output[3]
           /\ tensor_shape(test_tensor) = <<3, 2, 2>>
    /\ (wmode = "tried" /\ last_write.op = "mask") =>
           /\ test_tensor = prev_tensor
           /\ Len(selected) = Cardinality({i \in 1..3 : last_write.val[i]})
           /\ \A n \in 1..Len(selected) :
                  selected[n] = prev_tensor[nth_true(last_write.val, n)]

C22_Witness ==
    /\ wmode = "notebook" /\ wpc = 3
    /\ Len(selected) = 2
    /\ selected[2] = <<<<RInt(0), RInt(0)>>, <<RInt(5), RInt(0)>>>>
    /\ Len(test_tensor) = 3

-----------------------------------------------------------------------------
\* the place (1-based) of the entry (i, j, k) of a tensor of shape (3, 2, 2)
\* in row-major order
row_major_place(i, j, k) == (i - 1) * 4 + (j - 1) * 2 + k

\* C23: reshape needs a shape that stores as many elements as the tensor has
\* and keeps the elements in row-major order: [[1, 2], [0, 5]].reshape(4) is
\* (1, 2, 0, 5), and test_tensor.reshape(3, 4) has as row i the matrix i, row
\* after row; a tried reshape to a shape with another number of elements
\* raises.
C23_ReshapeKeepsRowMajorOrder ==
    /\ (wmode = "notebook" /\ reshaped # <<>>) =>
           /\ reshaped.vector = <<RInt(1), RInt(2), RInt(0), RInt(5)>>
           /\ reshaped.batch = << <<RInt(-3), RInt(-1), RInt(3), RInt(3)>>,
                                  <<RInt(-3), RInt(-2), RInt(3), RInt(3)>>,
                                  <<RInt(3), RInt(3), RInt(3), RInt(3)>> >>
           /\ \A i \in 1..3 : reshaped.batch[i] = test_tensor[i][1] \o test_tensor[i][2]
           /\ shown = notebook_output[8]
    /\ (wmode = "tried" /\ last_write.op = "reshape") =>
           LET sh == last_write.val
               n_new == IF Len(sh) = 1 THEN sh[1] ELSE sh[1] * sh[2]
           IN  /\ test_tensor = prev_tensor
               /\ raised = "RuntimeError" <=> n_new # 12
               /\ raised = "RuntimeError" => reshaped.batch = <<>>
               /\ raised = "none" =>
                      \A i \in 1..3, j \in 1..2, k \in 1..2 :
                          LET n == row_major_place(i, j, k)
                          IN  test_tensor[i][j][k] =
                                  IF Len(sh) = 1 THEN reshaped.batch[n]
                                  ELSE reshaped.batch[((n - 1) \div sh[2]) + 1]
                                                     [((n - 1) % sh[2]) + 1]

C23_Witness ==
    /\ wmode = "notebook" /\ wpc = 8
    /\ reshaped # <<>>
    /\ reshaped.vector[3] = RInt(0)
    /\ Len(reshaped.batch) = 3 /\ Len(reshaped.batch[2]) = 4
    /\ reshaped.batch[2][2] = RInt(-2)

-----------------------------------------------------------------------------
\* C24: real_out of the accuracy check cell is the closed form u(t; D) the
\* notebooks state: the two have the same value at every time looked at in
\* [0, 3] for D = 0.02, g = 9.81, H = 50.0.
C24_ReferenceIsStatedForm ==
    compared # NotCompared => compared.stated = compared.reference

\* at t = 0 the two agree, both are H; at the later times they differ by
\* 2/D ln((1 + 1/n) / 2)
ReferenceAndStatedForm ==
    compared # NotCompared =>
        /\ compared.n = 1 => (compared.stated = VRat(H) /\ compared.reference = VRat(H))
        /\ VSub(compared.stated, compared.reference)
               = VScale(RDiv(RInt(2), D_pinn), VLn(Rat(compared.n + 1, 2 * compared.n)))

-----------------------------------------------------------------------------
\* total_loss of the network with parameters w
TotalLoss == [w \in 0..(NumNets - 1) |->
                 RAdd(ThreeLosses[w][1], RAdd(ThreeLosses[w][2], ThreeLosses[w][3]))]

\* C25: in the physics-informed loop the loss printed at iteration k is the
\* loss of the parameters before the optimizer step of iteration k, after k
\* steps: the loss printed at iteration 0 is the one of the untrained network
\* and the last printed loss, of iteration train_iterations - 1, is the one of
\* the parameters before the last step, not of the parameters the loop leaves.
C25_ReportedLossIsBeforeStep ==
    nb = "pinn" =>
        /\ (tpc \in {"zero_grad", "backward", "step"} /\ (it % 250 = 0 \/ it = 4999)) =>
               /\ printed = [k |-> it, loss |-> TotalLoss[weights["model"]]]
               /\ n_steps = it
        /\ printed.k = 0 => printed.loss = TotalLoss[left_by_run]
        /\ tpc = "done" =>
               /\ printed.k = train_iterations - 1
               /\ n_steps = printed.k + 1
               /\ grads.of = "total_loss"
               /\ printed.loss = TotalLoss[grads.at]

C25_Witness ==
    /\ nb = "pinn" /\ tpc = "done"
    /\ printed.k = 4999
    /\ weights["model"] # grads.at
    /\ printed.loss = TotalLoss[grads.at]
    /\ printed.loss # TotalLoss[weights["model"]]

=============================================================================
